---- MODULE Spec2Model ----
(***************************************************************************)
(* The meeting lifecycle, the attendance ledger, the membership history    *)
(* and the promotion/demotion step of the OASIS quorum calculator, as a    *)
(* state machine over the tables of its SQLite database.                   *)
(*                                                                         *)
(* Instants are whole seconds, the resolution of every comparison the      *)
(* queries make (unixepoch) and of the meeting times the forms accept.     *)
(*                                                                         *)
(* The database runs in WAL mode with deferred transactions: a             *)
(* transaction reads the snapshot taken by its first SELECT, there is one  *)
(* writer at a time, a transaction that has read can start to write only   *)
(* while its snapshot is the latest committed state, and its writes are    *)
(* seen by others at COMMIT only.                                          *)
(***************************************************************************)
EXTENDS Integers, FiniteSets, Sequences, TLC

\* ------------------------------------------------------------------ bounds
MaxTime == 3
MaxMeetings == 2
NumUsers == 4
NumCommittees == 2
NumProcs == 2
MaxHistory == 3
MaxAbsent == 1
MaxDuration == 2
\* The users whose membership varies in SpecEngine, and the members of a
\* committee in SpecLifecycle.
EngineUsers == 1
LifecycleUsers == 2
OverviewUsers == 2
AttendanceUsers == 2
AttendanceMeetings == 1
FormUsers == 1
ImportUsers == 2
LedgerTime == 1

\* --------------------------------------------------------------- constants
MeetingOnHold == 0
MeetingRunning == 1
MeetingConcluded == 2

Member == 0
Voting == 1
NoneVoting == 2
NoMember == 3

ChairRole == 0
MemberRole == 1
\* The hour the import gives a meeting to last: two units of the clock.
ImportHour == 2

MeetingStatuses == {MeetingOnHold, MeetingRunning, MeetingConcluded}
MemberStatuses == {Member, Voting, NoneVoting, NoMember}
Roles == {ChairRole, MemberRole}

Users == 1..NumUsers
Committees == 1..NumCommittees
Procs == 1..NumProcs
MeetingIDs == 1..MaxMeetings
Times == 0..MaxTime

ErrAlreadyRunning == "already running"
ErrNewerConcluded == "newer concluded"
ErrUpdateFailed == "updating meeting status failed"
ErrInsertFailed == "upgrading / downgrading members failed"
Errors == {ErrAlreadyRunning, ErrNewerConcluded, ErrUpdateFailed, ErrInsertFailed}
\* The error of SQLite when a statement leaves a dangling reference.
ErrForeignKey == "FOREIGN KEY constraint failed"
\* The error of SQLite when a statement repeats a unique key.
ErrUnique == "UNIQUE constraint failed"

VARIABLES
    now,                \* the wall clock, in seconds
    meetings,           \* table meetings: id -> row
    attendees,          \* table attendees: rows (meetings_id, nickname, voting_allowed)
    attendees_changes,  \* table attendees_changes: rows (meetings_id, nickname, time)
    member_history,     \* table member_history: rows (nickname, committees_id, status, since)
    committee_roles,    \* table committee_roles: rows (nickname, committees_id, role)
    member_absent,      \* table member_absent: rows (nickname, committee_id, start_time, stop_time)
    tx,                 \* per request: the ChangeMeetingStatus call it runs, and its position
    writer,             \* the request holding the database write lock, 0 when free
    pendStatus,         \* the writer's uncommitted UPDATE of meetings: <<>> or <<id, status>>
    pendHistory,        \* the writer's uncommitted INSERTs into member_history
    conclusions,        \* history: the committed conclusions, in commit order
    overview,           \* the result of the last LoadMeetingsOverview call
    shown,              \* the result of the last UserHistory.Status call
    reply,              \* the last attendance, edit or delete call: the time its caller
                        \* accepted, the races it logged, the error it returned
    sqlite_sequence     \* table sqlite_sequence: the largest meeting id handed out

vars == <<now, meetings, attendees, attendees_changes, member_history,
          committee_roles, member_absent, tx, writer, pendStatus, pendHistory,
          conclusions, overview, shown, reply, sqlite_sequence>>

\* What the read-only requests have returned.
views == <<overview, shown>>

db == <<meetings, attendees, attendees_changes, member_history,
        committee_roles, member_absent>>

\* ------------------------------------------------------------------- time
unixepoch(t) == t

CalculateEndpoint(begin, end) ==
    IF now > begin /\ now < end THEN now ELSE end

\* --------------------------------------------------------------- queries
HistoryOf(H, nickname, committeeID) ==
    {h \in H : h.nickname = nickname /\ h.committees_id = committeeID}

\* ORDER BY unixepoch(since) DESC LIMIT 1 over a set of history rows.
LatestEntry(S) ==
    CHOOSE h \in S : \A g \in S : unixepoch(g.since) <= unixepoch(h.since)

\* The check of line 46-53 left out: no meeting is ever found running.
HasCommitteeRunningMeetingTx_NoCheck(M, committeeID) == FALSE

HasCommitteeRunningMeetingTx(M, committeeID) ==
    \E m \in DOMAIN M :
        M[m].committees_id = committeeID /\ M[m].status = MeetingRunning

\* The check of line 55-62 left out: no newer concluded meeting is ever found.
HasConcludedMeetingNewerThanTx_NoCheck(M, meetingID) == FALSE

HasConcludedMeetingNewerThanTx(M, meetingID) ==
    \E m1 \in DOMAIN M, m2 \in DOMAIN M :
        /\ m1 = meetingID
        /\ M[m1].committees_id = M[m2].committees_id
        /\ m1 # m2
        /\ M[m2].status = MeetingConcluded
        /\ unixepoch(M[m2].start_time) > unixepoch(M[m1].start_time)

\* The test of line 73-80 left out: no meeting is taken as a gathering.
IsGatheringMeetingTx_Never(M, meetingID) == FALSE

IsGatheringMeetingTx(M, meetingID) == M[meetingID].gathering

PreviousCandidates(M, meetingID) ==
    {m2 \in DOMAIN M :
        /\ meetingID \in DOMAIN M
        /\ M[meetingID].committees_id = M[m2].committees_id
        /\ ~M[m2].gathering
        /\ M[m2].status = MeetingConcluded
        /\ unixepoch(M[m2].start_time) < unixepoch(M[meetingID].start_time)}

\* The id of the meeting before the given one, 0 if there is none.
PreviousMeetingTx(M, meetingID) ==
    LET C == PreviousCandidates(M, meetingID)
    IN  IF C = {} THEN 0
        ELSE CHOOSE m2 \in C :
                \A m3 \in C : unixepoch(M[m3].start_time) <= unixepoch(M[m2].start_time)

MeetingAttendeesTx(A, meetingID) == {a \in A : a.meetings_id = meetingID}

Attended(att, nickname) == \E a \in att : a.nickname = nickname

VotingFlag(att, nickname) == \E a \in att : a.nickname = nickname /\ a.voting_allowed

\* The status loadUserTx gives a membership: the latest entry, Member by default.
LoadUserStatus(H, nickname, committeeID) ==
    LET S == HistoryOf(H, nickname, committeeID)
    IN  IF S = {} THEN Member ELSE LatestEntry(S).status

LoadCommitteeUsersTx(R, committeeID) ==
    {u \in Users : \E r \in R : r.nickname = u /\ r.committees_id = committeeID}

\* Membership.HasRole on the membership of a user in a committee.
HasRole(R, nickname, committeeID, role) ==
    \E r \in R :
        r.nickname = nickname /\ r.committees_id = committeeID /\ r.role = role

UserMemberStatusSinceTx(H, nickname, committeeID, when) ==
    LET S == {h \in HistoryOf(H, nickname, committeeID) :
                 unixepoch(h.since) <= unixepoch(when)}
    IN  IF S = {} THEN [status |-> Member, found |-> FALSE]
        ELSE [status |-> LatestEntry(S).status, found |-> TRUE]

IsUserExcusedFromMeetingTx(B, nickname, committeeID, when) ==
    \E b \in B :
        /\ b.nickname = nickname
        /\ b.committee_id = committeeID
        /\ b.start_time <= when
        /\ when <= b.stop_time

LoadMeetingTx(M, meetingID, committeeID) ==
    IF meetingID \in DOMAIN M /\ M[meetingID].committees_id = committeeID
    THEN M[meetingID]
    ELSE [committees_id |-> 0, gathering |-> FALSE, status |-> MeetingOnHold,
          start_time |-> 0, stop_time |-> 0, description |-> ""]

\* ------------------------------------------- the promotion/demotion step
\* The closure loadPrevMeeting of onSuccess: it loads the meeting with the id
\* meetingID of the call, the previous meeting's id is not used.
loadPrevMeeting(M, meetingID, prevMeetingID, committeeID) ==
    LoadMeetingTx(M, meetingID, committeeID)

\* The downgrade branch without the look at the previous meeting's attendees
\* (line 133-135): one absence is enough.
IsDowngrade_SingleStrike(M, A, H, B, nickname, meetingID, prevMeetingID, committeeID) ==
    LET currAttendees == MeetingAttendeesTx(A, meetingID)
        msStatus      == LoadUserStatus(H, nickname, committeeID)
        prevMeeting   == loadPrevMeeting(M, meetingID, prevMeetingID, committeeID)
        since         == UserMemberStatusSinceTx(H, nickname, committeeID,
                                                 prevMeeting.stop_time)
        isExcused     == IsUserExcusedFromMeetingTx(B, nickname, committeeID,
                                                    prevMeeting.stop_time)
    IN  /\ msStatus # NoneVoting
        /\ ~Attended(currAttendees, nickname)
        /\ msStatus = Voting
        /\ ~isExcused
        /\ since.found
        /\ since.status = Voting

\* A user absent from the current meeting is put on the downgrade list.
IsDowngrade(M, A, H, B, nickname, meetingID, prevMeetingID, committeeID) ==
    LET currAttendees == MeetingAttendeesTx(A, meetingID)
        prevAttendees == MeetingAttendeesTx(A, prevMeetingID)
        msStatus      == LoadUserStatus(H, nickname, committeeID)
        prevMeeting   == loadPrevMeeting(M, meetingID, prevMeetingID, committeeID)
        since         == UserMemberStatusSinceTx(H, nickname, committeeID,
                                                 prevMeeting.stop_time)
        isExcused     == IsUserExcusedFromMeetingTx(B, nickname, committeeID,
                                                    prevMeeting.stop_time)
    IN  /\ msStatus # NoneVoting
        /\ ~Attended(currAttendees, nickname)
        /\ msStatus = Voting
        /\ ~Attended(prevAttendees, nickname)
        /\ ~isExcused
        /\ since.found
        /\ since.status = Voting

\* The upgrade branch without the look at the voting flag of the previous
\* attendance (line 169).
IsUpgrade_AnyPrevFlag(M, A, H, nickname, meetingID, prevMeetingID, committeeID) ==
    LET currAttendees == MeetingAttendeesTx(A, meetingID)
        prevAttendees == MeetingAttendeesTx(A, prevMeetingID)
        msStatus      == LoadUserStatus(H, nickname, committeeID)
        prevMeeting   == loadPrevMeeting(M, meetingID, prevMeetingID, committeeID)
        since         == UserMemberStatusSinceTx(H, nickname, committeeID,
                                                 prevMeeting.stop_time)
    IN  /\ msStatus # NoneVoting
        /\ Attended(currAttendees, nickname)
        /\ ~VotingFlag(currAttendees, nickname)
        /\ msStatus = Member
        /\ Attended(prevAttendees, nickname)
        /\ since.found
        /\ since.status = Member

\* The upgrade branch without the skip of NoneVoting users (line 120) and
\* with "not Voting" as the status test of line 165.
IsUpgrade_NoSkip(M, A, H, nickname, meetingID, prevMeetingID, committeeID) ==
    LET currAttendees == MeetingAttendeesTx(A, meetingID)
        prevAttendees == MeetingAttendeesTx(A, prevMeetingID)
        msStatus      == LoadUserStatus(H, nickname, committeeID)
        prevMeeting   == loadPrevMeeting(M, meetingID, prevMeetingID, committeeID)
        since         == UserMemberStatusSinceTx(H, nickname, committeeID,
                                                 prevMeeting.stop_time)
    IN  /\ Attended(currAttendees, nickname)
        /\ ~VotingFlag(currAttendees, nickname)
        /\ msStatus # Voting
        /\ Attended(prevAttendees, nickname)
        /\ ~VotingFlag(prevAttendees, nickname)
        /\ since.found
        /\ since.status = Member

\* A user present in the current meeting is put on the upgrade list.
IsUpgrade(M, A, H, nickname, meetingID, prevMeetingID, committeeID) ==
    LET currAttendees == MeetingAttendeesTx(A, meetingID)
        prevAttendees == MeetingAttendeesTx(A, prevMeetingID)
        msStatus      == LoadUserStatus(H, nickname, committeeID)
        prevMeeting   == loadPrevMeeting(M, meetingID, prevMeetingID, committeeID)
        since         == UserMemberStatusSinceTx(H, nickname, committeeID,
                                                 prevMeeting.stop_time)
    IN  /\ msStatus # NoneVoting
        /\ Attended(currAttendees, nickname)
        /\ ~VotingFlag(currAttendees, nickname)
        /\ msStatus = Member
        /\ Attended(prevAttendees, nickname)
        /\ ~VotingFlag(prevAttendees, nickname)
        /\ since.found
        /\ since.status = Member

\* onSuccess without the return at "We need two meetings".
EngineRuns_NoPrevNeeded(M, meetingID, meetingStatus) ==
    /\ meetingStatus = MeetingConcluded
    /\ ~IsGatheringMeetingTx(M, meetingID)

\* onSuccess without the return for a status other than MeetingConcluded.
EngineRuns_AnyStatus(M, meetingID, meetingStatus) ==
    /\ ~IsGatheringMeetingTx(M, meetingID)
    /\ PreviousMeetingTx(M, meetingID) # 0

\* Whether onSuccess gets as far as the loop over the committee's users.
EngineRuns(M, meetingID, meetingStatus) ==
    /\ meetingStatus = MeetingConcluded
    /\ ~IsGatheringMeetingTx(M, meetingID)
    /\ PreviousMeetingTx(M, meetingID) # 0

Upgrades(M, A, H, R, meetingID, committeeID, meetingStatus) ==
    IF ~EngineRuns(M, meetingID, meetingStatus) THEN {}
    ELSE {u \in LoadCommitteeUsersTx(R, committeeID) :
            IsUpgrade(M, A, H, u, meetingID, PreviousMeetingTx(M, meetingID),
                      committeeID)}

Downgrades(M, A, H, R, B, meetingID, committeeID, meetingStatus) ==
    IF ~EngineRuns(M, meetingID, meetingStatus) THEN {}
    ELSE {u \in LoadCommitteeUsersTx(R, committeeID) :
            IsDowngrade(M, A, H, B, u, meetingID, PreviousMeetingTx(M, meetingID),
                        committeeID)}

\* The nicknames of a set in increasing order (ORDER BY nickname).
RECURSIVE SortedSeq(_)
SortedSeq(S) ==
    IF S = {} THEN <<>>
    ELSE LET x == CHOOSE y \in S : \A z \in S : y <= z
         IN  <<x>> \o SortedSeq(S \ {x})

Attribute(s, status) == [i \in 1..Len(s) |-> <<s[i], status>>]

Join2(s, t) == s \o t

\* UpdateUserCommitteeStatusTx over the pairs users[i..]: the rows inserted so
\* far, and whether an INSERT failed on UNIQUE(nickname, committees_id, since).
RECURSIVE UpdateUserCommitteeStatusTx(_, _, _, _, _, _)
UpdateUserCommitteeStatusTx(H, ins, users, i, committeeID, since) ==
    IF i > Len(users) THEN [failed |-> FALSE, inserted |-> ins]
    ELSE LET nickname == users[i][1]
             status   == users[i][2]
             S        == HistoryOf(H \cup ins, nickname, committeeID)
             row      == [nickname |-> nickname, committees_id |-> committeeID,
                          status |-> status, since |-> since]
         IN  IF S # {} /\ LatestEntry(S).status = status
             THEN UpdateUserCommitteeStatusTx(H, ins, users, i + 1, committeeID, since)
             ELSE IF \E h \in S : h.since = since
                  THEN [failed |-> TRUE, inserted |-> ins]
                  ELSE UpdateUserCommitteeStatusTx(H, ins \cup {row}, users, i + 1,
                                                   committeeID, since)

\* onSuccess of ChangeMeetingStatus on the transaction's view of the tables.
onSuccess(M, A, H, R, B, meetingID, committeeID, meetingStatus, timer) ==
    LET upgrades   == SortedSeq(Upgrades(M, A, H, R, meetingID, committeeID,
                                         meetingStatus))
        downgrades == SortedSeq(Downgrades(M, A, H, R, B, meetingID, committeeID,
                                           meetingStatus))
    IN  UpdateUserCommitteeStatusTx(
            H, {},
            Join2(Attribute(upgrades, Voting), Attribute(downgrades, Member)),
            1, committeeID, timer)

\* ------------------------------------------------------- the transactions
IdleTx ==
    [pc |-> "idle", meetingID |-> 0, committeeID |-> 0,
     meetingStatus |-> MeetingOnHold, timer |-> 0, snap |-> FALSE,
     stale |-> FALSE, n |-> 0, ret |-> "", wasConcluded |-> FALSE,
     edit |-> <<>>]

\* A call that has returned: its arguments and result stay readable.
Returned(t, result) ==
    [t EXCEPT !.pc = "idle", !.committeeID = 0, !.timer = 0, !.snap = FALSE,
              !.stale = FALSE, !.ret = result, !.edit = <<>>]

\* A commit of `p` (0: a transaction of another handler) outdates the
\* snapshots of the transactions that have read.
Outdate(t, p) ==
    [q \in Procs |->
        IF q # p /\ t[q].snap THEN [t[q] EXCEPT !.stale = TRUE] ELSE t[q]]

\* A view in which the rows written replace the older entries of the same
\* user and committee.
ViewHistory_Replace ==
    {h \in member_history :
        ~\E g \in pendHistory :
            g.nickname = h.nickname /\ g.committees_id = h.committees_id} \cup
    pendHistory

\* The tables as the writer sees them: its own writes on top of the last commit.
ViewMeetings ==
    IF pendStatus = <<>> THEN meetings
    ELSE [meetings EXCEPT ![pendStatus[1]].status = pendStatus[2]]

ViewHistory == member_history \cup pendHistory

\* Line 44-66: the call and the precondition of ChangeMeetingStatus. The
\* caller has loaded the meeting and computed the timer from it.
Precondition(p, meetingID, meetingStatus, timer) ==
    /\ tx[p].pc = "idle"
    /\ meetingID \in DOMAIN meetings
    /\ timer \in {CalculateEndpoint(meetings[meetingID].start_time,
                                    meetings[meetingID].stop_time),
                  meetings[meetingID].stop_time}
    /\ LET committeeID == meetings[meetingID].committees_id
           call == [IdleTx EXCEPT !.meetingID = meetingID,
                                  !.committeeID = committeeID,
                                  !.meetingStatus = meetingStatus,
                                  !.timer = timer,
                                  !.wasConcluded =
                                      (meetings[meetingID].status = MeetingConcluded)]
       IN  tx' = [tx EXCEPT ![p] =
              CASE meetingStatus = MeetingRunning ->
                     IF HasCommitteeRunningMeetingTx(meetings, committeeID)
                     THEN Returned(call, ErrAlreadyRunning)
                     ELSE [call EXCEPT !.pc = "update", !.snap = TRUE]
                [] meetingStatus = MeetingConcluded ->
                     IF HasConcludedMeetingNewerThanTx(meetings, meetingID)
                     THEN Returned(call, ErrNewerConcluded)
                     ELSE [call EXCEPT !.pc = "update", !.snap = TRUE]
                [] OTHER -> [call EXCEPT !.pc = "update"]]
    /\ UNCHANGED <<views, reply, sqlite_sequence, now, db, writer, pendStatus,
                   pendHistory, conclusions>>

\* The UPDATE without its condition status <> 2.
RowsAffected_Unconditional(M, meetingID, committeeID) ==
    IF meetingID \in DOMAIN M /\ M[meetingID].committees_id = committeeID
    THEN 1 ELSE 0

\* RowsAffected of UPDATE meetings SET status = ? WHERE id = ? AND
\* committees_id = ? AND status <> 2.
RowsAffected(M, meetingID, committeeID) ==
    IF /\ meetingID \in DOMAIN M
       /\ M[meetingID].committees_id = committeeID
       /\ M[meetingID].status # MeetingConcluded
    THEN 1 ELSE 0

\* Line 230-245: the conditional UPDATE, which takes the write lock.
UpdateMeetingStatus(p) ==
    /\ tx[p].pc = "update"
    /\ writer = 0
    /\ ~tx[p].stale
    /\ LET n == RowsAffected(meetings, tx[p].meetingID, tx[p].committeeID)
       IN  /\ tx' = [tx EXCEPT ![p].n = n,
                               ![p].pc = IF n = 1 THEN "onSuccess" ELSE "commit"]
           /\ pendStatus' = IF n = 1
                            THEN <<tx[p].meetingID, tx[p].meetingStatus>>
                            ELSE <<>>
    /\ writer' = p
    /\ UNCHANGED <<views, reply, sqlite_sequence, now, db, pendHistory, conclusions>>

\* Line 239-241: the UPDATE is refused (SQLITE_BUSY): at once when the
\* transaction has read and its snapshot is outdated or another one writes,
\* after the busy timeout when it has not read and another one keeps writing.
UpdateMeetingStatusBusy(p) ==
    /\ tx[p].pc = "update"
    /\ IF tx[p].snap THEN writer # 0 \/ tx[p].stale ELSE writer # 0
    /\ tx' = [tx EXCEPT ![p] = Returned(tx[p], ErrUpdateFailed)]
    /\ UNCHANGED <<views, reply, sqlite_sequence, now, db, writer, pendStatus,
                   pendHistory, conclusions>>

\* A status change that brings the voting flags of the user's attendances
\* in line with the new status.
AttendeesAfterStatusChange_Resync(A, rows) ==
    {IF \E h \in rows : h.nickname = a.nickname
     THEN [a EXCEPT !.voting_allowed =
              \E h \in rows : h.nickname = a.nickname /\ h.status = Voting]
     ELSE a : a \in A}

\* The table attendees after the rows of a status change are inserted into
\* member_history: the INSERT is the only statement, and no trigger and no
\* foreign key leads from member_history to attendees.
AttendeesAfterStatusChange(A, rows) == A

\* A commit in place of the deferred Rollback: the writes stay.
AfterFailure_Keep(committed, written) == written

\* What the transaction leaves in the tables when onSuccess returns an error:
\* nothing, the deferred Rollback of line 222 drops its writes.
AfterFailure(committed, written) == committed

\* Line 246-250 with line 69-202: onSuccess runs in the transaction of the
\* UPDATE. When it returns an error the call returns it and the deferred
\* Rollback of line 222 ends the transaction.
CallOnSuccess(p) ==
    /\ tx[p].pc = "onSuccess"
    /\ writer = p
    /\ LET r == onSuccess(ViewMeetings, attendees, ViewHistory, committee_roles,
                          member_absent, tx[p].meetingID, tx[p].committeeID,
                          tx[p].meetingStatus, tx[p].timer)
       IN  IF r.failed
           THEN /\ meetings' = AfterFailure(meetings, ViewMeetings)
                /\ member_history' = AfterFailure(member_history,
                                                  member_history \cup r.inserted)
                /\ tx' = [tx EXCEPT ![p] = Returned(tx[p], ErrInsertFailed)]
                /\ writer' = 0
                /\ pendStatus' = <<>>
                /\ pendHistory' = {}
           ELSE /\ pendHistory' = r.inserted
                /\ tx' = [tx EXCEPT ![p].pc = "commit"]
                /\ UNCHANGED <<meetings, member_history, writer, pendStatus>>
    /\ UNCHANGED <<views, reply, sqlite_sequence, now, attendees, attendees_changes, committee_roles,
                   member_absent, conclusions>>

\* Line 251: COMMIT.
Commit(p) ==
    /\ tx[p].pc = "commit"
    /\ writer = p
    /\ meetings' = ViewMeetings
    /\ member_history' = ViewHistory
    /\ conclusions' =
          IF tx[p].n = 1 /\ tx[p].meetingStatus = MeetingConcluded
          THEN Append(conclusions,
                      [meeting |-> tx[p].meetingID,
                       committee |-> tx[p].committeeID,
                       start_time |-> meetings[tx[p].meetingID].start_time,
                       since |-> tx[p].timer,
                       upgrades |-> {h.nickname : h \in {g \in pendHistory : g.status = Voting}},
                       downgrades |-> {h.nickname : h \in {g \in pendHistory : g.status = Member}}])
          ELSE conclusions
    /\ tx' = IF tx[p].n = 1
             THEN Outdate([tx EXCEPT ![p] = Returned(tx[p], "ok")], p)
             ELSE [tx EXCEPT ![p] = Returned(tx[p], "ok")]
    /\ writer' = 0
    /\ pendStatus' = <<>>
    /\ pendHistory' = {}
    /\ attendees' = AttendeesAfterStatusChange(attendees, pendHistory)
    /\ UNCHANGED <<views, reply, sqlite_sequence, now, attendees_changes, committee_roles,
                   member_absent>>

\* ------------------------------------------------- the other handlers
\* Each runs in a transaction of its own, which needs the write lock.

\* Meeting.StoreNew: a new meeting is on hold. The insert fails on
\* UNIQUE(committees_id, start_time) and on CHECK(start_time <= stop_time).
StoreNew(committeeID, gathering, startTime, stopTime) ==
    /\ writer = 0
    /\ sqlite_sequence < MaxMeetings
    /\ startTime <= stopTime
    /\ ~\E m \in DOMAIN meetings :
          /\ meetings[m].committees_id = committeeID
          /\ meetings[m].start_time = startTime
    /\ LET id == sqlite_sequence + 1
       IN  /\ sqlite_sequence' = id
           /\ meetings' = [m \in DOMAIN meetings \cup {id} |->
                          IF m = id
                          THEN [committees_id |-> committeeID,
                                gathering |-> gathering,
                                status |-> MeetingOnHold,
                                start_time |-> startTime,
                                stop_time |-> stopTime,
                                description |-> ""]
                          ELSE meetings[m]]
    /\ tx' = Outdate(tx, 0)
    /\ UNCHANGED <<views, reply, now, attendees, attendees_changes, member_history,
                   committee_roles, member_absent, writer, pendStatus,
                   pendHistory, conclusions>>

\* OverlapFilter on the meetings of a committee: a meeting other than the
\* exception meets the interval from start to stop, its ends included.
OverlapFilter(M, committeeID, start, stop, exception) ==
    \E m \in DOMAIN M \ {exception} :
        /\ M[m].committees_id = committeeID
        /\ ~(M[m].stop_time < start \/ stop < M[m].start_time)

\* Controller.meetingEditStore up to the call of Store: the meeting is loaded,
\* a concluded one is not edited, and the new interval has to be free.
EditLoad(p, meetingID, committeeID, gathering, startTime, stopTime, description) ==
    /\ tx[p].pc = "idle"
    /\ LoadMeetingTx(meetings, meetingID, committeeID).committees_id # 0
    /\ LoadMeetingTx(meetings, meetingID, committeeID).status # MeetingConcluded
    /\ startTime <= stopTime
    /\ ~OverlapFilter(meetings, committeeID, startTime, stopTime, meetingID)
    /\ tx' = [tx EXCEPT ![p] =
                [IdleTx EXCEPT !.pc = "store",
                               !.meetingID = meetingID,
                               !.committeeID = committeeID,
                               !.edit = [gathering |-> gathering,
                                         start_time |-> startTime,
                                         stop_time |-> stopTime,
                                         description |-> description]]]
    /\ UNCHANGED <<views, reply, sqlite_sequence, now, db, writer, pendStatus,
                   pendHistory, conclusions>>

\* The rows the UPDATE of Store hits: WHERE id = ? AND committees_id = ?.
StoreHits(M, meetingID, committeeID) ==
    /\ meetingID \in DOMAIN M
    /\ M[meetingID].committees_id = committeeID

\* Meeting.Store: one UPDATE of gathering, start_time, stop_time and
\* description, which fails on UNIQUE(committees_id, start_time).
Store(p) ==
    /\ tx[p].pc = "store"
    /\ writer = 0
    /\ LET id == tx[p].meetingID
           e == tx[p].edit
           hit == StoreHits(meetings, id, tx[p].committeeID)
           clash == /\ hit
                    /\ \E m \in DOMAIN meetings \ {id} :
                          /\ meetings[m].committees_id = tx[p].committeeID
                          /\ meetings[m].start_time = e.start_time
           err == IF clash THEN ErrUnique ELSE ""
       IN  /\ meetings' =
                 IF hit /\ ~clash
                 THEN [meetings EXCEPT ![id] =
                         [@ EXCEPT !.gathering = e.gathering,
                                   !.start_time = e.start_time,
                                   !.stop_time = e.stop_time,
                                   !.description = e.description]]
                 ELSE meetings
           /\ reply' = [op |-> "Store", accept |-> -1, races |-> {}, err |-> err]
           /\ tx' = IF hit /\ ~clash
                    THEN Outdate([tx EXCEPT ![p] = Returned(tx[p], err)], p)
                    ELSE [tx EXCEPT ![p] = Returned(tx[p], err)]
    /\ UNCHANGED <<views, sqlite_sequence, now, attendees, attendees_changes,
                   member_history, committee_roles, member_absent, writer,
                   pendStatus, pendHistory, conclusions>>

\* The meetings the DELETEs of DeleteMeetingsByID remove: WHERE id = ? AND
\* committees_id = ? AND status <> 2.
Deletable(M, committeeID, ids) ==
    {m \in ids \cap DOMAIN M :
        /\ M[m].committees_id = committeeID
        /\ M[m].status # MeetingConcluded}

\* DeleteMeetingsByID: one transaction with a DELETE for every id. The
\* delete cascades to attendees and attendees_changes; the trigger after the
\* delete of an attendee row writes a row of attendees_changes for the
\* meeting that is going, so the DELETE of a meeting with attendees fails on
\* the foreign key and the transaction is rolled back.
DeleteMeetingsByID(committeeID, ids) ==
    /\ writer = 0
    /\ LET gone == Deletable(meetings, committeeID, ids)
           failed == \E a \in attendees : a.meetings_id \in gone
       IN  IF failed
           THEN /\ reply' = [op |-> "Delete", accept |-> -1, races |-> {},
                             err |-> ErrForeignKey]
                /\ UNCHANGED <<meetings, attendees_changes, tx>>
           ELSE /\ meetings' = [m \in DOMAIN meetings \ gone |-> meetings[m]]
                /\ attendees_changes' =
                      {c \in attendees_changes : c.meetings_id \notin gone}
                /\ reply' = [op |-> "Delete", accept |-> -1, races |-> {},
                             err |-> ""]
                /\ tx' = IF gone = {} THEN tx ELSE Outdate(tx, 0)
    /\ UNCHANGED <<views, sqlite_sequence, now, attendees, member_history,
                   committee_roles, member_absent, writer, pendStatus,
                   pendHistory, conclusions>>

\* The rows UpdateMemberships inserts into member_history: one for each
\* membership with the member role whose status differs from the latest entry.
NewStatusRows(nickname, memberships) ==
    {[nickname |-> nickname, committees_id |-> c,
      status |-> memberships[c].status, since |-> now] :
        c \in {d \in Committees :
                 /\ MemberRole \in memberships[d].roles
                 /\ LET S == HistoryOf(member_history, nickname, d)
                    IN  S = {} \/ LatestEntry(S).status # memberships[d].status}}

\* UpdateMemberships: memberships[c].roles is empty for a committee the user
\* is to hold no role in.
UpdateMemberships(nickname, memberships) ==
    /\ writer = 0
    /\ LET rows == NewStatusRows(nickname, memberships)
       IN  \* An INSERT that fails on UNIQUE(nickname, committees_id, since)
           \* rolls the transaction back.
           /\ ~\E r \in rows, h \in member_history :
                 /\ h.nickname = r.nickname
                 /\ h.committees_id = r.committees_id
                 /\ h.since = r.since
           /\ \A r \in rows :
                 Cardinality(HistoryOf(member_history, nickname, r.committees_id))
                    < MaxHistory
           /\ member_history' = member_history \cup rows
           /\ attendees' = AttendeesAfterStatusChange(attendees, rows)
    /\ committee_roles' =
          {r \in committee_roles : r.nickname # nickname} \cup
          {r \in [nickname : {nickname}, committees_id : Committees, role : Roles] :
              r.role \in memberships[r.committees_id].roles}
    /\ \/ committee_roles' # committee_roles
       \/ member_history' # member_history
    /\ tx' = Outdate(tx, 0)
    /\ UNCHANGED <<views, reply, sqlite_sequence, now, meetings, attendees_changes,
                   member_absent, writer, pendStatus, pendHistory, conclusions>>

\* The time attendees_changes holds for a pair, -1 if it holds none.
LastChanged(meetingID, nickname) ==
    IF \E c \in attendees_changes :
          c.meetings_id = meetingID /\ c.nickname = nickname
    THEN (CHOOSE c \in attendees_changes :
             c.meetings_id = meetingID /\ c.nickname = nickname).time
    ELSE -1

\* The check without the comparison with accept: every user passes.
Accepted_NoCheck(meetingID, seq, accept) ==
    DOMAIN seq

\* The check with "not before" in place of "after": a change recorded at the
\* accept time itself is taken as a race.
Accepted_OnlyBefore(meetingID, seq, accept) ==
    {u \in DOMAIN seq : LastChanged(meetingID, u) < accept}

\* The users of seq whose check passes: no change recorded after accept.
Accepted(meetingID, seq, accept) ==
    {u \in DOMAIN seq : ~(LastChanged(meetingID, u) > accept)}

\* The triggers without ON CONFLICT DO UPDATE: a pair keeps its first time.
Stamp_KeepFirst(meetingID, touched) ==
    attendees_changes \cup
    {[meetings_id |-> meetingID, nickname |-> u, time |-> now] :
        u \in {v \in touched : LastChanged(meetingID, v) = -1}}

\* The triggers on attendees: the pairs touched get the current time.
Stamp(meetingID, touched) ==
    {c \in attendees_changes :
        ~(c.meetings_id = meetingID /\ c.nickname \in touched)} \cup
    {[meetings_id |-> meetingID, nickname |-> u, time |-> now] : u \in touched}

\* The requests after the call of request p has returned (p = 0: the caller
\* is none of the requests, and no request changes).
Answered(p, err) ==
    IF p = 0 THEN tx ELSE [tx EXCEPT ![p] = Returned(tx[p], err)]

\* Attend, called by request p: seq maps the nicknames to mark to their
\* voting flags. The insert of a row for a meeting that does not exist fails
\* on the foreign key.
Attend(p, meetingID, seq, accept) ==
    /\ writer = 0
    /\ LET touched == Accepted(meetingID, seq, accept)
       IN  IF touched # {} /\ meetingID \notin DOMAIN meetings
           THEN /\ reply' = [op |-> "Attend", accept |-> accept, races |-> DOMAIN seq \ touched,
                           err |-> ErrForeignKey]
                /\ tx' = Answered(p, ErrForeignKey)
                /\ UNCHANGED <<attendees, attendees_changes>>
           ELSE /\ attendees' =
                      {a \in attendees :
                          ~(a.meetings_id = meetingID /\ a.nickname \in touched)} \cup
                      {[meetings_id |-> meetingID, nickname |-> u,
                        voting_allowed |-> seq[u]] : u \in touched}
                /\ attendees_changes' = Stamp(meetingID, touched)
                /\ reply' = [op |-> "Attend", accept |-> accept, races |-> DOMAIN seq \ touched,
                           err |-> ""]
                /\ tx' = IF touched = {} THEN Answered(p, "ok")
                         ELSE Outdate(Answered(p, "ok"), p)
    /\ UNCHANGED <<views, sqlite_sequence, now, meetings, member_history,
                   committee_roles, member_absent, writer, pendStatus,
                   pendHistory, conclusions>>

\* Unattend, called by request p: the rows of the nicknames of seq whose
\* check passes are deleted.
Unattend(p, meetingID, seq, accept) ==
    /\ writer = 0
    /\ LET touched == {u \in Accepted(meetingID, seq, accept) :
                          Attended(MeetingAttendeesTx(attendees, meetingID), u)}
       IN  /\ attendees' =
                 {a \in attendees :
                     ~(a.meetings_id = meetingID /\ a.nickname \in touched)}
           /\ attendees_changes' = Stamp(meetingID, touched)
           /\ tx' = IF touched = {} THEN Answered(p, "ok")
                    ELSE Outdate(Answered(p, "ok"), p)
    /\ reply' = [op |-> "Unattend", accept |-> accept,
               races |-> DOMAIN seq \ Accepted(meetingID, seq, accept),
               err |-> ""]
    /\ UNCHANGED <<views, sqlite_sequence, now, meetings, member_history,
                   committee_roles, member_absent, writer, pendStatus,
                   pendHistory, conclusions>>

\* UpdateAttendee: the row of one user is upserted or deleted; the time of
\* the last change is not read. The function takes no accept time: `seen`,
\* the time at which the page of the caller was rendered, is only recorded.
UpdateAttendee(meetingID, nickname, attend, voting, seen) ==
    /\ writer = 0
    /\ IF attend /\ meetingID \notin DOMAIN meetings
       THEN /\ reply' = [op |-> "UpdateAttendee", accept |-> seen,
                        races |-> {}, err |-> ErrForeignKey]
            /\ UNCHANGED <<attendees, attendees_changes, tx>>
       ELSE LET touched ==
                    IF attend \/ Attended(MeetingAttendeesTx(attendees, meetingID),
                                          nickname)
                    THEN {nickname} ELSE {}
            IN  /\ attendees' =
                      {a \in attendees :
                          ~(a.meetings_id = meetingID /\ a.nickname = nickname)} \cup
                      (IF attend
                       THEN {[meetings_id |-> meetingID, nickname |-> nickname,
                              voting_allowed |-> voting]}
                       ELSE {})
                /\ attendees_changes' = Stamp(meetingID, touched)
                /\ reply' = [op |-> "UpdateAttendee", accept |-> seen,
                           races |-> {}, err |-> ""]
                /\ tx' = IF touched = {} THEN tx ELSE Outdate(tx, 0)
    /\ UNCHANGED <<views, sqlite_sequence, now, meetings, member_history,
                   committee_roles, member_absent, writer, pendStatus,
                   pendHistory, conclusions>>

\* The voting flag the chair's form gives a user of the committee.
FormVoting(nickname, committeeID) ==
    /\ LoadUserStatus(member_history, nickname, committeeID) = Voting
    /\ HasRole(committee_roles, nickname, committeeID, MemberRole)

\* Controller.meetingAttendStore up to the call of the action: the chair's
\* form with the nicknames ticked, sent from a page rendered at `rendered`.
\* The meeting is loaded and has to be running, the users of the committee
\* are loaded, and nicknames that are no users of the committee are dropped.
meetingAttendStore(p, meetingID, committeeID, form, attend, rendered) ==
    /\ tx[p].pc = "idle"
    /\ LoadMeetingTx(meetings, meetingID, committeeID).committees_id # 0
    /\ LoadMeetingTx(meetings, meetingID, committeeID).status = MeetingRunning
    /\ LET users == LoadCommitteeUsersTx(committee_roles, committeeID)
           seq == [u \in form \cap users |-> FormVoting(u, committeeID)]
       IN  tx' = [tx EXCEPT ![p] =
                    [IdleTx EXCEPT !.pc = "action",
                                   !.meetingID = meetingID,
                                   !.committeeID = committeeID,
                                   !.edit = [seq |-> seq, attend |-> attend,
                                             rendered |-> rendered]]]
    /\ UNCHANGED <<views, reply, sqlite_sequence, now, db, writer, pendStatus,
                   pendHistory, conclusions>>

\* The call of the action at the end of meetingAttendStore: Attend or
\* Unattend in a transaction of its own, with the list built from the users
\* loaded before.
action(p) ==
    /\ tx[p].pc = "action"
    /\ IF tx[p].edit.attend
       THEN Attend(p, tx[p].meetingID, tx[p].edit.seq, tx[p].edit.rendered)
       ELSE Unattend(p, tx[p].meetingID, tx[p].edit.seq, tx[p].edit.rendered)

\* The flag the import gives an attendee.
ImportVoting(nickname, committeeID) == TRUE

\* The import of one meeting of a table (the body of the last loop of run):
\* the meeting is stored to last ImportHour, its attendees are marked as
\* accepted at its start, and it is concluded at its stop time. An error of
\* the conclusion ends the import; the meeting and its attendees stay.
ImportMeeting(committeeID, startTime, names) ==
    /\ writer = 0
    /\ sqlite_sequence < MaxMeetings
    /\ ~\E m \in DOMAIN meetings :
          /\ meetings[m].committees_id = committeeID
          /\ meetings[m].start_time = startTime
    /\ LET id == sqlite_sequence + 1
           stopTime == startTime + ImportHour
           M1 == [m \in DOMAIN meetings \cup {id} |->
                     IF m = id
                     THEN [committees_id |-> committeeID, gathering |-> FALSE,
                           status |-> MeetingOnHold,
                           start_time |-> startTime, stop_time |-> stopTime,
                           description |-> ""]
                     ELSE meetings[m]]
           A1 == attendees \cup
                 {[meetings_id |-> id, nickname |-> u,
                   voting_allowed |-> ImportVoting(u, committeeID)] : u \in names}
           M2 == [M1 EXCEPT ![id].status = MeetingConcluded]
           newer == HasConcludedMeetingNewerThanTx(M1, id)
           r == onSuccess(M2, A1, member_history, committee_roles, member_absent,
                          id, committeeID, MeetingConcluded, stopTime)
           done == ~newer /\ ~r.failed
       IN  /\ sqlite_sequence' = id
           /\ attendees' = A1
           /\ attendees_changes' = Stamp(id, names)
           /\ meetings' = IF done THEN M2 ELSE M1
           /\ member_history' = IF done THEN member_history \cup r.inserted
                                ELSE member_history
           /\ conclusions' =
                 IF done
                 THEN Append(conclusions,
                        [meeting |-> id, committee |-> committeeID,
                         start_time |-> startTime, since |-> stopTime,
                         upgrades |-> {h.nickname : h \in {g \in r.inserted : g.status = Voting}},
                         downgrades |-> {h.nickname : h \in {g \in r.inserted : g.status = Member}}])
                 ELSE conclusions
           /\ reply' = [op |-> "Import", accept |-> startTime, races |-> {},
                        err |-> IF newer THEN ErrNewerConcluded
                                ELSE IF r.failed THEN ErrInsertFailed ELSE ""]
    /\ tx' = Outdate(tx, 0)
    /\ UNCHANGED <<views, now, committee_roles, member_absent, writer,
                   pendStatus, pendHistory>>

\* MemberAbsent.StoreNew: an excused absence of a user in a committee.
AbsentStoreNew(nickname, committeeID, startTime, stopTime) ==
    /\ writer = 0
    /\ Cardinality(member_absent) < MaxAbsent
    /\ startTime < stopTime
    /\ ~\E b \in member_absent :
          /\ b.nickname = nickname
          /\ b.committee_id = committeeID
          /\ b.start_time = startTime
    /\ member_absent' = member_absent \cup
          {[nickname |-> nickname, committee_id |-> committeeID,
            start_time |-> startTime, stop_time |-> stopTime]}
    /\ tx' = Outdate(tx, 0)
    /\ UNCHANGED <<views, reply, sqlite_sequence, now, meetings, attendees, attendees_changes, member_history,
                   committee_roles, writer, pendStatus, pendHistory, conclusions>>

\* Time passes.
Tick ==
    /\ now < MaxTime
    /\ now' = now + 1
    /\ UNCHANGED <<views, reply, sqlite_sequence, db, tx, writer, pendStatus,
                   pendHistory, conclusions>>

\* ------------------------------------------------- histories and quorum
\* The rows of a set in the order of unixepoch(since).
RECURSIVE SortedBySince(_)
SortedBySince(S) ==
    IF S = {} THEN <<>>
    ELSE LET h == CHOOSE g \in S : \A k \in S : unixepoch(g.since) <= unixepoch(k.since)
         IN  <<[since |-> h.since, status |-> h.status]>> \o SortedBySince(S \ {h})

\* LoadUsersHistoriesTx: the history of each user of the committee; the map
\* gives the empty history for a user without entries.
LoadUsersHistoriesTx(H, committeeID) ==
    [u \in Users |-> SortedBySince(HistoryOf(H, u, committeeID))]

\* slices.BinarySearchFunc over uh[i..j-1] (indices from 0) with the
\* comparison of the Since values: the smallest index whose entry is not
\* before the target.
RECURSIVE BinarySearchFunc(_, _, _, _)
BinarySearchFunc(uh, when, i, j) ==
    IF i < j
    THEN LET h == (i + j) \div 2
         IN  IF uh[h + 1].since < when
             THEN BinarySearchFunc(uh, when, h + 1, j)
             ELSE BinarySearchFunc(uh, when, i, h)
    ELSE i

\* UserHistory.Status with the default case returning the entry found at the
\* index instead of the one before it.
Status_AtIndex(uh, when) ==
    IF Len(uh) = 0 THEN NoMember
    ELSE LET idx   == BinarySearchFunc(uh, when, 0, Len(uh))
             found == idx < Len(uh) /\ uh[idx + 1].since = when
         IN  CASE found -> uh[idx + 1].status
               [] idx = 0 -> NoMember
               [] idx = Len(uh) -> uh[Len(uh)].status
               [] OTHER -> uh[idx + 1].status

\* UserHistory.Status: the status of the user at a given time.
Status(uh, when) ==
    IF Len(uh) = 0 THEN NoMember
    ELSE LET idx   == BinarySearchFunc(uh, when, 0, Len(uh))
             found == idx < Len(uh) /\ uh[idx + 1].since = when
         IN  CASE found -> uh[idx + 1].status
               [] idx = 0 -> NoMember
               [] idx = Len(uh) -> uh[Len(uh)].status
               [] OTHER -> uh[idx].status

\* Quorum.Number without the one added.
Number_Half(q) == q.Voting \div 2

\* Quorum.Number: the number of voting members to reach the quorum.
Number(q) == 1 + q.Voting \div 2

Reached(q) == q.AttendingVoting >= Number(q)

\* The ids of the committee's meetings, latest start first (all callers pass
\* the limit -1).
RECURSIVE LatestFirst(_, _)
LatestFirst(M, ids) ==
    IF ids = {} THEN <<>>
    ELSE LET m == CHOOSE x \in ids :
                     \A y \in ids : unixepoch(M[y].start_time) <= unixepoch(M[x].start_time)
         IN  <<m>> \o LatestFirst(M, ids \ {m})

LoadLastNMeetingsTx(M, committeeID) ==
    LatestFirst(M, {m \in DOMAIN M : M[m].committees_id = committeeID})

\* The users LoadMeetingsOverview collects: those with a status at the end
\* of one of the meetings, and the attendees of the meetings.
NeededUsers(M, A, H, committeeID) ==
    LET ms        == LoadLastNMeetingsTx(M, committeeID)
        histories == LoadUsersHistoriesTx(H, committeeID)
    IN  {u \in Users :
            \E i \in 1..Len(ms) :
                \/ Status(histories[u], M[ms[i]].stop_time) # NoMember
                \/ Attended(MeetingAttendeesTx(A, ms[i]), u)}

\* The quorum counting every needed user who attended, voting or not.
QuorumOf_AllAttending(M, A, H, committeeID, meetingID) ==
    LET histories == LoadUsersHistoriesTx(H, committeeID)
        needed    == NeededUsers(M, A, H, committeeID)
        voting    == {u \in needed :
                         Status(histories[u], M[meetingID].stop_time) = Voting}
        attending == {u \in needed : Attended(MeetingAttendeesTx(A, meetingID), u)}
    IN  [Voting |-> Cardinality(voting), AttendingVoting |-> Cardinality(attending)]

\* The quorum LoadMeetingsOverview calculates for a meeting.
QuorumOf(M, A, H, committeeID, meetingID) ==
    LET histories == LoadUsersHistoriesTx(H, committeeID)
        needed    == NeededUsers(M, A, H, committeeID)
        voting    == {u \in needed :
                         Status(histories[u], M[meetingID].stop_time) = Voting}
        attending == {u \in voting : Attended(MeetingAttendeesTx(A, meetingID), u)}
    IN  [Voting |-> Cardinality(voting), AttendingVoting |-> Cardinality(attending)]

\* A meeting's entry of the overview; a gathering has no quorum.
MeetingData(M, A, H, committeeID, meetingID) ==
    LET q == IF M[meetingID].gathering
             THEN [Voting |-> 0, AttendingVoting |-> 0]
             ELSE QuorumOf(M, A, H, committeeID, meetingID)
    IN  [meeting |-> meetingID,
         hasQuorum |-> ~M[meetingID].gathering,
         quorum |-> q,
         number |-> Number(q),
         reached |-> Reached(q)]

NoOverview == [committeeID |-> 0, data |-> <<>>]

NoStatus == [nickname |-> 0, committeeID |-> 0, when |-> 0, status |-> NoMember]

\* LoadMeetingsOverview in its read-only transaction.
LoadMeetingsOverview(committeeID) ==
    /\ LET ms == LoadLastNMeetingsTx(meetings, committeeID)
       IN  overview' =
              [committeeID |-> committeeID,
               data |-> [i \in 1..Len(ms) |->
                           MeetingData(meetings, attendees, member_history,
                                       committeeID, ms[i])]]
    /\ overview' # overview
    /\ UNCHANGED <<shown, reply, sqlite_sequence, now, db, tx, writer, pendStatus,
                   pendHistory, conclusions>>

\* The status of a user of the committee at a time, looked up in the loaded
\* histories.
ShowStatus(nickname, committeeID, when) ==
    /\ shown' = [nickname |-> nickname, committeeID |-> committeeID, when |-> when,
                 status |-> Status(LoadUsersHistoriesTx(member_history,
                                                        committeeID)[nickname], when)]
    /\ shown' # shown
    /\ UNCHANGED <<overview, reply, sqlite_sequence, now, db, tx, writer, pendStatus,
                   pendHistory, conclusions>>

\* ------------------------------------------------------ the specification
Memberships ==
    {ms \in [Committees -> [roles : SUBSET Roles, status : MemberStatuses]] :
        \A c \in Committees : ms[c].roles = {} => ms[c].status = Member}

Descriptions == {"", "agenda"}

Seqs == UNION {[S -> BOOLEAN] : S \in SUBSET Users \ {{}}}

\* No attendance, edit or delete call has returned yet.
NoReply == [op |-> "", accept |-> -1, races |-> {}, err |-> ""]

\* The database after the migrations, before any request.
Init ==
    /\ now = 0
    /\ meetings = <<>>
    /\ attendees = {}
    /\ attendees_changes = {}
    /\ member_history = {}
    /\ committee_roles = {}
    /\ member_absent = {}
    /\ tx = [p \in Procs |-> IdleTx]
    /\ writer = 0
    /\ pendStatus = <<>>
    /\ pendHistory = {}
    /\ conclusions = <<>>
    /\ overview = NoOverview
    /\ shown = NoStatus
    /\ reply = NoReply
    /\ sqlite_sequence = 0

Next ==
    \/ \E p \in Procs, m \in MeetingIDs, s \in MeetingStatuses, t \in Times :
          Precondition(p, m, s, t)
    \/ \E p \in Procs : UpdateMeetingStatus(p)
    \/ \E p \in Procs : UpdateMeetingStatusBusy(p)
    \/ \E p \in Procs : CallOnSuccess(p)
    \/ \E p \in Procs : Commit(p)
    \/ \E c \in Committees, g \in BOOLEAN, s \in Times, d \in 0..MaxDuration :
          StoreNew(c, g, s, s + d)
    \/ \E u \in Users, ms \in Memberships : UpdateMemberships(u, ms)
    \/ \E m \in MeetingIDs, seq \in Seqs, a \in Times : Attend(0, m, seq, a)
    \/ \E m \in MeetingIDs, seq \in Seqs, a \in Times : Unattend(0, m, seq, a)
    \/ \E m \in MeetingIDs, u \in Users, a \in BOOLEAN, v \in BOOLEAN, t \in 0..now :
          UpdateAttendee(m, u, a, v, t)
    \/ \E u \in Users, c \in Committees, s \in Times, e \in Times :
          AbsentStoreNew(u, c, s, e)
    \/ \E p \in Procs, m \in MeetingIDs, c \in Committees, g \in BOOLEAN,
          s \in Times, d \in 0..MaxDuration, t \in Descriptions :
          EditLoad(p, m, c, g, s, s + d, t)
    \/ \E p \in Procs : Store(p)
    \/ \E c \in Committees, ids \in SUBSET MeetingIDs : DeleteMeetingsByID(c, ids)
    \/ \E p \in Procs, form \in SUBSET Users, c \in Committees, m \in MeetingIDs,
          a \in BOOLEAN, t \in 0..now :
          meetingAttendStore(p, m, c, form, a, t)
    \/ \E p \in Procs : action(p)
    \/ \E c \in Committees, s \in Times, names \in SUBSET Users :
          ImportMeeting(c, s, names)
    \/ \E c \in Committees : LoadMeetingsOverview(c)
    \/ \E u \in Users, c \in Committees, t \in Times : ShowStatus(u, c, t)
    \/ Tick

Spec == Init /\ [][Next]_vars

\* ------------------------------------------------ bounded specifications
\* Spec is the whole machine, from the empty database. The properties are
\* checked under specifications that start from a database Spec reaches by
\* set-up requests (StoreNew, UpdateMemberships, Attend at time 0) and then
\* run the handlers the property is about, so that TLC visits all their
\* states within the bounds.
\* A database after set-up: MaxMeetings meetings stored by StoreNew, meeting
\* i starting at i - 1, all on hold; a meeting of a committee ends no later
\* than the committee's next one starts.
SetUpMeetings(committees, gatherings, durations) ==
    LET All == {[m \in MeetingIDs |->
                   [committees_id |-> c[m], gathering |-> g[m],
                    status |-> MeetingOnHold,
                    start_time |-> m - 1, stop_time |-> m - 1 + d[m],
                    description |-> ""]] :
                   c \in [MeetingIDs -> committees],
                   g \in [MeetingIDs -> gatherings],
                   d \in [MeetingIDs -> durations]}
    IN  {M \in All :
            \A i \in MeetingIDs, j \in MeetingIDs :
                (i < j /\ M[i].committees_id = M[j].committees_id)
                => M[i].stop_time <= M[j].start_time}

\* Attendance marked by Attend at time 0: at most one row for each pair.
SetUpAttendees(users) ==
    {A \in SUBSET [meetings_id : MeetingIDs, nickname : users,
                   voting_allowed : BOOLEAN] :
        \A a, b \in A :
            a.meetings_id = b.meetings_id /\ a.nickname = b.nickname => a = b}

ChangesOf(A) ==
    {[meetings_id |-> a.meetings_id, nickname |-> a.nickname, time |-> 0] : a \in A}

\* Memberships entered by UpdateMemberships at time 0: a user with the member
\* role has a first history entry, a user who is chair only has none.
SetUpMembers(users, committees) ==
    [users \X committees -> MemberStatuses \cup {-1}]

RolesOf(mb) ==
    {[nickname |-> k[1], committees_id |-> k[2],
      role |-> IF mb[k] = -1 THEN ChairRole ELSE MemberRole] : k \in DOMAIN mb}

HistoryFrom(mb) ==
    {[nickname |-> k[1], committees_id |-> k[2], status |-> mb[k], since |-> 0] :
        k \in {j \in DOMAIN mb : mb[j] # -1}}

\* Absences approved at time 0: none, or one of a user for the whole time.
SetUpAbsent(users, committeeID) ==
    {{}} \cup {{[nickname |-> u, committee_id |-> committeeID,
                 start_time |-> 0, stop_time |-> MaxTime]} : u \in users}

NoRequests ==
    /\ tx = [p \in Procs |-> IdleTx]
    /\ writer = 0
    /\ pendStatus = <<>>
    /\ pendHistory = {}
    /\ conclusions = <<>>
    /\ overview = NoOverview
    /\ shown = NoStatus
    /\ reply = NoReply
    /\ sqlite_sequence = Cardinality(DOMAIN meetings)

\* SpecEngine: the regular meetings of one committee, one request at a time,
\* only conclusions; the attendance and the membership of users
\* 1..EngineUsers vary.
InitEngine ==
    /\ now = 0
    /\ meetings \in SetUpMeetings({1}, {FALSE}, 1..MaxDuration)
    /\ attendees \in SetUpAttendees(1..EngineUsers)
    /\ attendees_changes = ChangesOf(attendees)
    /\ \E mb \in SetUpMembers(1..EngineUsers, {1}) :
          /\ committee_roles = RolesOf(mb)
          /\ member_history = HistoryFrom(mb)
    /\ member_absent \in SetUpAbsent(1..EngineUsers, 1)
    /\ NoRequests

EngineMemberships ==
    {ms \in Memberships :
        /\ ms[1].roles = {MemberRole}
        /\ \A c \in Committees \ {1} : ms[c].roles = {}}

NextEngine ==
    \/ \E m \in MeetingIDs, t \in Times : Precondition(1, m, MeetingConcluded, t)
    \/ UpdateMeetingStatus(1)
    \/ UpdateMeetingStatusBusy(1)
    \/ CallOnSuccess(1)
    \/ Commit(1)
    \/ \E u \in 1..EngineUsers, ms \in EngineMemberships : UpdateMemberships(u, ms)
    \/ Tick

SpecEngine == InitEngine /\ [][NextEngine]_vars

\* SpecLifecycle: concurrent requests for every status on the meetings of
\* NumCommittees committees. The users of odd number are voting members who
\* attend nothing, the others are members who attend everything.
InitLifecycle ==
    /\ now = 0
    /\ meetings \in SetUpMeetings(Committees, BOOLEAN, {1})
    /\ attendees = {a \in [meetings_id : MeetingIDs, nickname : 1..LifecycleUsers,
                           voting_allowed : {FALSE}] : a.nickname % 2 = 0}
    /\ attendees_changes = ChangesOf(attendees)
    /\ LET mb == [k \in (1..LifecycleUsers) \X Committees |->
                    IF k[1] % 2 = 1 THEN Voting ELSE Member]
       IN  /\ committee_roles = RolesOf(mb)
           /\ member_history = HistoryFrom(mb)
    /\ member_absent = {}
    /\ NoRequests

NextLifecycle ==
    \/ \E p \in Procs, m \in MeetingIDs, s \in MeetingStatuses, t \in Times :
          Precondition(p, m, s, t)
    \/ \E p \in Procs : UpdateMeetingStatus(p)
    \/ \E p \in Procs : UpdateMeetingStatusBusy(p)
    \/ \E p \in Procs : CallOnSuccess(p)
    \/ \E p \in Procs : Commit(p)

SpecLifecycle == InitLifecycle /\ [][NextLifecycle]_vars

\* SpecScenario: four voting members of committee 1 and its regular meetings,
\* concluded by one request at a time. Three of the four attend the first
\* meeting, any of them the later ones; the controller marks them as voting.
ScenarioUsers == {1, 2, 3, 4}

InitScenario ==
    /\ now = 0
    /\ meetings \in SetUpMeetings({1}, {FALSE}, {1})
    /\ attendees \in
          {A \in SUBSET [meetings_id : MeetingIDs, nickname : ScenarioUsers,
                         voting_allowed : {TRUE}] :
              Cardinality({a \in A : a.meetings_id = 1})
                  = Cardinality(ScenarioUsers) - 1}
    /\ attendees_changes = ChangesOf(attendees)
    /\ LET mb == [k \in ScenarioUsers \X {1} |-> Voting]
       IN  /\ committee_roles = RolesOf(mb)
           /\ member_history = HistoryFrom(mb)
    /\ member_absent = {}
    /\ NoRequests

NextScenario ==
    \/ \E m \in MeetingIDs, s \in MeetingStatuses, t \in Times :
          Precondition(1, m, s, t)
    \/ UpdateMeetingStatus(1)
    \/ CallOnSuccess(1)
    \/ Commit(1)
    \/ Tick

SpecScenario == InitScenario /\ [][NextScenario]_vars

\* SpecRoles: as SpecEngine without later membership changes, but after
\* UpdateMemberships has been called twice for a user at time 0: every user
\* has a first history entry and now holds one role, chair or member.
SetUpRoles(users, committees) ==
    {{[nickname |-> k[1], committees_id |-> k[2], role |-> f[k]] : k \in DOMAIN f} :
        f \in [users \X committees -> Roles]}

InitRoles ==
    /\ now = 0
    /\ meetings \in SetUpMeetings({1}, {FALSE}, 1..MaxDuration)
    /\ attendees \in SetUpAttendees(1..EngineUsers)
    /\ attendees_changes = ChangesOf(attendees)
    /\ committee_roles \in SetUpRoles(1..EngineUsers, {1})
    /\ \E mb \in [(1..EngineUsers) \X {1} -> MemberStatuses] :
          member_history = HistoryFrom(mb)
    /\ member_absent \in SetUpAbsent(1..EngineUsers, 1)
    /\ NoRequests

NextRoles ==
    \/ \E m \in MeetingIDs, t \in Times : Precondition(1, m, MeetingConcluded, t)
    \/ UpdateMeetingStatus(1)
    \/ CallOnSuccess(1)
    \/ Commit(1)
    \/ Tick

SpecRoles == InitRoles /\ [][NextRoles]_vars

\* SpecHistory: the memberships of users 1..EngineUsers in committee 1 change
\* as time passes, and the status of a user at a time is looked up.
InitHistory ==
    /\ now = 0
    /\ meetings \in SetUpMeetings({1}, {FALSE}, {1})
    /\ attendees = {}
    /\ attendees_changes = {}
    /\ \E mb \in SetUpMembers(1..EngineUsers, {1}) :
          /\ committee_roles = RolesOf(mb)
          /\ member_history = HistoryFrom(mb)
    /\ member_absent = {}
    /\ NoRequests

NextHistory ==
    \/ \E u \in 1..EngineUsers, ms \in EngineMemberships : UpdateMemberships(u, ms)
    \/ \E u \in 1..EngineUsers, t \in Times : ShowStatus(u, 1, t)
    \/ Tick

SpecHistory == InitHistory /\ [][NextHistory]_vars

\* SpecOverview: the meetings of committee 1, gatherings among them, with any
\* attendance of users 1..OverviewUsers; the membership of user 1 changes as
\* time passes, and the overview of the committee is loaded.
InitOverview ==
    /\ now = 0
    /\ meetings \in SetUpMeetings({1}, BOOLEAN, {1})
    /\ attendees \in {A \in SetUpAttendees(1..OverviewUsers) :
                         \A a \in A : ~a.voting_allowed}
    /\ attendees_changes = ChangesOf(attendees)
    /\ \E mb \in SetUpMembers(1..OverviewUsers, {1}) :
          /\ committee_roles = RolesOf(mb)
          /\ member_history = HistoryFrom(mb)
    /\ member_absent = {}
    /\ NoRequests

NextOverview ==
    \/ \E ms \in EngineMemberships : UpdateMemberships(1, ms)
    \/ LoadMeetingsOverview(1)
    \/ Tick

SpecOverview == InitOverview /\ [][NextOverview]_vars

\* SpecAttendance: the attendance of users 1..AttendanceUsers at meetings
\* 1..AttendanceMeetings of committee 1 is marked, changed and removed as time passes, by calls
\* that accepted the attendance at any time.
AttendanceSeqs == UNION {[S -> BOOLEAN] : S \in SUBSET (1..AttendanceUsers) \ {{}}}

InitAttendance ==
    /\ now = 0
    /\ meetings \in SetUpMeetings({1}, {FALSE}, {1})
    /\ attendees = {}
    /\ attendees_changes = {}
    /\ LET mb == [k \in (1..AttendanceUsers) \X {1} |-> Voting]
       IN  /\ committee_roles = RolesOf(mb)
           /\ member_history = HistoryFrom(mb)
    /\ member_absent = {}
    /\ NoRequests

NextAttendance ==
    \/ \E m \in 1..AttendanceMeetings, seq \in AttendanceSeqs, a \in Times :
          Attend(0, m, seq, a)
    \/ \E m \in 1..AttendanceMeetings, seq \in AttendanceSeqs, a \in Times :
          Unattend(0, m, seq, a)
    \/ \E m \in 1..AttendanceMeetings, u \in 1..AttendanceUsers,
          a \in BOOLEAN, v \in BOOLEAN, t \in 0..now :
          UpdateAttendee(m, u, a, v, t)
    \/ Tick

SpecAttendance == InitAttendance /\ [][NextAttendance]_vars

\* SpecForms: meeting 1 of committee 1 is running; the chair marks and
\* unmarks users 1..FormUsers on a page just rendered, the import adds
\* concluded meetings with attendees, and the membership of user 1 changes
\* as time passes.
FormMemberships ==
    {ms \in Memberships :
        /\ ms[1].roles \in {{MemberRole}, {ChairRole}}
        /\ ms[1].status \in {Member, Voting}
        /\ \A c \in Committees \ {1} : ms[c].roles = {}}

InitForms ==
    /\ now = 0
    /\ meetings = <<[committees_id |-> 1, gathering |-> FALSE,
                     status |-> MeetingRunning,
                     start_time |-> 0, stop_time |-> MaxDuration,
                     description |-> ""]>>
    /\ attendees = {}
    /\ attendees_changes = {}
    /\ \E mb \in SetUpMembers(1..FormUsers, {1}) :
          /\ committee_roles = RolesOf(mb)
          /\ member_history = HistoryFrom(mb)
    /\ member_absent = {}
    /\ NoRequests

NextForms ==
    \/ \E form \in SUBSET (1..FormUsers) \ {{}}, a \in BOOLEAN :
          meetingAttendStore(1, 1, 1, form, a, now)
    \/ action(1)
    \/ \E s \in 0..(MaxTime - ImportHour), names \in SUBSET (1..FormUsers) \ {{}} :
          ImportMeeting(1, s, names)
    \/ \E ms \in FormMemberships : UpdateMemberships(1, ms)
    \/ Tick

SpecForms == InitForms /\ [][NextForms]_vars

\* SpecImport: meeting 1 of committee 1 is concluded, with any attendance of
\* users 1..ImportUsers, who are entered in any status; the import adds
\* another meeting as time passes.
InitImport ==
    /\ now = 0
    /\ meetings = <<[committees_id |-> 1, gathering |-> FALSE,
                     status |-> MeetingConcluded,
                     start_time |-> 0, stop_time |-> 1, description |-> ""]>>
    /\ attendees \in {A \in SetUpAttendees(1..ImportUsers) :
                         \A a \in A : a.meetings_id = 1}
    /\ attendees_changes = ChangesOf(attendees)
    /\ \E mb \in SetUpMembers(1..ImportUsers, {1}) :
          /\ committee_roles = RolesOf(mb)
          /\ member_history = HistoryFrom(mb)
    /\ member_absent = {}
    /\ NoRequests

NextImport ==
    \/ \E s \in 0..(MaxTime - ImportHour), names \in SUBSET (1..ImportUsers) :
          ImportMeeting(1, s, names)
    \/ Tick

SpecImport == InitImport /\ [][NextImport]_vars

\* SpecEdit: the two regular meetings of committee 1, with any attendance of
\* users 1..EngineUsers; request 1 concludes meetings while request 2 edits
\* them (it moves a meeting, sets its gathering flag and its description)
\* and meetings are deleted.
InitEdit ==
    /\ now = 0
    /\ meetings \in SetUpMeetings({1}, {FALSE}, {1})
    /\ attendees \in SetUpAttendees(1..EngineUsers)
    /\ attendees_changes = ChangesOf(attendees)
    /\ LET mb == [k \in (1..EngineUsers) \X {1} |-> Voting]
       IN  /\ committee_roles = RolesOf(mb)
           /\ member_history = HistoryFrom(mb)
    /\ member_absent = {}
    /\ NoRequests

NextEdit ==
    \/ \E m \in MeetingIDs, t \in Times : Precondition(1, m, MeetingConcluded, t)
    \/ UpdateMeetingStatus(1)
    \/ UpdateMeetingStatusBusy(1)
    \/ CallOnSuccess(1)
    \/ Commit(1)
    \/ \E m \in MeetingIDs, g \in BOOLEAN, s \in Times :
          EditLoad(2, m, 1, g, s, s + 1, "agenda")
    \/ Store(2)
    \/ \E ids \in SUBSET MeetingIDs \ {{}} : DeleteMeetingsByID(1, ids)

SpecEdit == InitEdit /\ [][NextEdit]_vars

\* SpecLedger: the two regular meetings of committee 1 and user 1, a voting
\* member; one request at a time concludes a meeting, moves it to the end,
\* deletes it, marks or unmarks the user or changes the membership, as time
\* passes up to LedgerTime.
InitLedger ==
    /\ now = 0
    /\ meetings \in SetUpMeetings({1}, {FALSE}, {1})
    /\ attendees = {}
    /\ attendees_changes = {}
    /\ LET mb == [k \in (1..EngineUsers) \X {1} |-> Voting]
       IN  /\ committee_roles = RolesOf(mb)
           /\ member_history = HistoryFrom(mb)
    /\ member_absent = {}
    /\ NoRequests

NextLedger ==
    \/ \E m \in MeetingIDs, t \in Times : Precondition(1, m, MeetingConcluded, t)
    \/ UpdateMeetingStatus(1)
    \/ CallOnSuccess(1)
    \/ Commit(1)
    \/ \E m \in MeetingIDs, g \in BOOLEAN :
          EditLoad(1, m, 1, g, MaxTime - 1, MaxTime, "agenda")
    \/ Store(1)
    \/ \E ids \in SUBSET MeetingIDs \ {{}} : DeleteMeetingsByID(1, ids)
    \/ \E ms \in EngineMemberships : UpdateMemberships(1, ms)
    \/ \E m \in MeetingIDs : Attend(0, m, [u \in {1} |-> TRUE], now)
    \/ \E m \in MeetingIDs : Unattend(0, m, [u \in {1} |-> TRUE], now)
    \/ (now < LedgerTime /\ Tick)

SpecLedger == InitLedger /\ [][NextLedger]_vars

\* SpecExcuse: as SpecRoles with every user entered as member, while
\* absences of users 1..EngineUsers in committee 1 are approved for any
\* interval of the clock.
InitExcuse ==
    /\ now = 0
    /\ meetings \in SetUpMeetings({1}, {FALSE}, 1..MaxDuration)
    /\ attendees \in SetUpAttendees(1..EngineUsers)
    /\ attendees_changes = ChangesOf(attendees)
    /\ \E mb \in [(1..EngineUsers) \X {1} -> MemberStatuses] :
          /\ committee_roles = RolesOf(mb)
          /\ member_history = HistoryFrom(mb)
    /\ member_absent = {}
    /\ NoRequests

NextExcuse ==
    \/ \E m \in MeetingIDs, t \in Times : Precondition(1, m, MeetingConcluded, t)
    \/ UpdateMeetingStatus(1)
    \/ CallOnSuccess(1)
    \/ Commit(1)
    \/ \E u \in 1..EngineUsers, s \in Times, e \in Times : AbsentStoreNew(u, 1, s, e)
    \/ Tick

SpecExcuse == InitExcuse /\ [][NextExcuse]_vars

\* SpecSubmit: meeting 1 of committee 1 is running and meeting 2 is on hold;
\* request 1 changes the status of the meetings while request 2 submits the
\* chair's form for user 1, a member who attends nothing so far.
InitSubmit ==
    /\ now = 0
    /\ \E M \in SetUpMeetings({1}, {FALSE}, {1}) :
          meetings = [M EXCEPT ![1].status = MeetingRunning]
    /\ attendees = {}
    /\ attendees_changes = {}
    /\ LET mb == [k \in (1..EngineUsers) \X {1} |-> Member]
       IN  /\ committee_roles = RolesOf(mb)
           /\ member_history = HistoryFrom(mb)
    /\ member_absent = {}
    /\ NoRequests

NextSubmit ==
    \/ \E m \in MeetingIDs, s \in MeetingStatuses, t \in Times :
          Precondition(1, m, s, t)
    \/ UpdateMeetingStatus(1)
    \/ UpdateMeetingStatusBusy(1)
    \/ CallOnSuccess(1)
    \/ Commit(1)
    \/ \E m \in MeetingIDs, form \in SUBSET (1..EngineUsers) \ {{}}, a \in BOOLEAN :
          meetingAttendStore(2, m, 1, form, a, now)
    \/ action(2)
    \/ Tick

SpecSubmit == InitSubmit /\ [][NextSubmit]_vars

\* SpecLate: as SpecEngine with user 1 a voting member, for meetings stored
\* with no duration, so that the clock passes the end of the last meeting
\* early and the membership can change more than once before the meeting
\* is concluded.
InitLate ==
    /\ now = 0
    /\ meetings \in SetUpMeetings({1}, {FALSE}, {0})
    /\ attendees \in SetUpAttendees(1..EngineUsers)
    /\ attendees_changes = ChangesOf(attendees)
    /\ \E mb \in [(1..EngineUsers) \X {1} -> {Member, Voting}] :
          /\ committee_roles = RolesOf(mb)
          /\ member_history = HistoryFrom(mb)
    /\ member_absent = {}
    /\ NoRequests

NextLate ==
    \/ \E m \in MeetingIDs :
          Precondition(1, m, MeetingConcluded,
                       CalculateEndpoint(meetings[m].start_time,
                                         meetings[m].stop_time))
    \/ UpdateMeetingStatus(1)
    \/ CallOnSuccess(1)
    \/ Commit(1)
    \/ \E u \in 1..EngineUsers, ms \in EngineMemberships : UpdateMemberships(u, ms)
    \/ Tick

SpecLate == InitLate /\ [][NextLate]_vars

\* SpecCreate: from the empty database, regular meetings of committee 1 are
\* stored at any time and with any duration, and one request at a time
\* changes the status of a meeting, as time passes.
NextCreate ==
    \/ \E s \in Times, d \in 0..MaxDuration : StoreNew(1, FALSE, s, s + d)
    \/ \E m \in DOMAIN meetings, s \in MeetingStatuses :
          Precondition(1, m, s, CalculateEndpoint(meetings[m].start_time,
                                                  meetings[m].stop_time))
    \/ UpdateMeetingStatus(1)
    \/ CallOnSuccess(1)
    \/ Commit(1)
    \/ Tick

SpecCreate == Init /\ [][NextCreate]_vars

\* ------------------------------------------------------------- properties
RunningIn(committeeID) ==
    {m \in DOMAIN meetings : /\ meetings[m].committees_id = committeeID
                             /\ meetings[m].status = MeetingRunning}

ConclusionsOf(meetingID) ==
    {i \in DOMAIN conclusions : conclusions[i].meeting = meetingID}

\* A call of process p that has returned.
HasReturned(p) == tx[p].pc = "idle" /\ tx[p].ret # ""

\* C1: under every interleaving of ChangeMeetingStatus calls a committee has
\* at most one running meeting.
C1_OneRunningMeeting ==
    \A c \in Committees : Cardinality(RunningIn(c)) <= 1

\* Two calls raced to start two meetings of one committee: one meeting runs,
\* the other call passed its precondition and was refused at the UPDATE.
C1_Witness ==
    \E p \in Procs, m \in DOMAIN meetings :
        /\ HasReturned(p)
        /\ tx[p].ret = ErrUpdateFailed
        /\ tx[p].meetingStatus = MeetingRunning
        /\ tx[p].meetingID # m
        /\ meetings[m].committees_id = meetings[tx[p].meetingID].committees_id
        /\ meetings[m].status = MeetingRunning
        /\ meetings[tx[p].meetingID].status = MeetingOnHold

\* C2: however often and however interleaved a meeting is concluded, onSuccess
\* runs to its commit in exactly one call, the one whose UPDATE changed the
\* row: a concluded meeting has one conclusion, any other meeting none, and a
\* call is in onSuccess only after its UPDATE has changed one row.
C2_OneExecution ==
    /\ \A m \in DOMAIN meetings :
          Cardinality(ConclusionsOf(m)) =
              IF meetings[m].status = MeetingConcluded THEN 1 ELSE 0
    /\ \A p \in Procs : tx[p].pc = "onSuccess" => tx[p].n = 1

\* Two calls have concluded the same regular meeting without an error: the
\* UPDATE of one changed the row, the UPDATE of the other changed nothing.
C2_Witness ==
    \E p \in Procs, q \in Procs :
        /\ p # q
        /\ HasReturned(p) /\ HasReturned(q)
        /\ tx[p].ret = "ok" /\ tx[q].ret = "ok"
        /\ tx[p].meetingStatus = MeetingConcluded
        /\ tx[q].meetingStatus = MeetingConcluded
        /\ tx[p].meetingID = tx[q].meetingID
        /\ ~meetings[tx[p].meetingID].gathering
        /\ tx[p].n = 1 /\ tx[q].n = 0
        /\ Cardinality(ConclusionsOf(tx[p].meetingID)) = 1

\* C3: in the step that concludes a meeting no meeting of the same committee
\* with a later start is concluded already.
C3_InStartOrder ==
    [][\A m \in DOMAIN meetings :
          (meetings[m].status # MeetingConcluded
             /\ meetings'[m].status = MeetingConcluded)
          => \A o \in DOMAIN meetings :
                (/\ o # m
                 /\ meetings[o].committees_id = meetings[m].committees_id
                 /\ meetings[o].start_time > meetings[m].start_time)
                => meetings[o].status # MeetingConcluded]_vars

\* A newer meeting was concluded first: the call to conclude the older one has
\* returned ErrNewerConcluded and the older meeting is not concluded.
C3_Witness ==
    \E p \in Procs, o \in DOMAIN meetings :
        /\ HasReturned(p)
        /\ tx[p].ret = ErrNewerConcluded
        /\ meetings[tx[p].meetingID].status # MeetingConcluded
        /\ meetings[o].committees_id = meetings[tx[p].meetingID].committees_id
        /\ meetings[o].start_time > meetings[tx[p].meetingID].start_time
        /\ meetings[o].status = MeetingConcluded
        /\ ConclusionsOf(o) # {}

\* The call of process p returns in this step.
Returns(p) == tx'[p] # tx[p] /\ tx'[p].pc = "idle"

\* C4: a call that returns an error leaves the meetings and the membership
\* history as they are and drops what its transaction has written; a meeting
\* becomes concluded only in the step that commits the status changes its
\* transaction has written, and a transaction of ChangeMeetingStatus changes
\* the history only in a step that concludes its meeting.
C4_AllOrNothing ==
    [][/\ \A p \in Procs :
             (Returns(p) /\ tx'[p].ret \in Errors)
             => /\ meetings' = meetings
                /\ member_history' = member_history
                /\ writer = p => /\ writer' = 0
                                 /\ pendStatus' = <<>>
                                 /\ pendHistory' = {}
       /\ \A m \in DOMAIN meetings :
             (meetings[m].status # MeetingConcluded
                /\ meetings'[m].status = MeetingConcluded)
             => /\ writer # 0 /\ tx[writer].meetingID = m
                /\ tx'[writer].ret = "ok"
                /\ member_history' = member_history \cup pendHistory
       /\ (writer # 0 /\ member_history' # member_history)
             => /\ meetings[tx[writer].meetingID].status # MeetingConcluded
                /\ meetings'[tx[writer].meetingID].status = MeetingConcluded]_vars

\* The promotion/demotion step has failed on an INSERT: the call has returned
\* the error and the meeting is not concluded.
C4_Witness ==
    \E p \in Procs :
        /\ HasReturned(p)
        /\ tx[p].ret = ErrInsertFailed
        /\ tx[p].meetingStatus = MeetingConcluded
        /\ meetings[tx[p].meetingID].status # MeetingConcluded
        /\ writer = 0

\* C5 as stated: a call on a meeting that was concluded when it was made
\* returns no error and leaves the meeting concluded (the calls the database
\* refused at the UPDATE are not counted against it).
C5_NoErrorOnConcluded ==
    \A p \in Procs :
        (HasReturned(p) /\ tx[p].wasConcluded /\ tx[p].ret # ErrUpdateFailed)
        => /\ tx[p].ret = "ok"
           /\ meetings[tx[p].meetingID].status = MeetingConcluded

\* C5 amended: a concluded meeting stays concluded. A call on a concluded
\* meeting returns ErrAlreadyRunning exactly when it asks for Running and the
\* committee has a running meeting, ErrNewerConcluded exactly when it asks for
\* Concluded and a newer meeting of the committee is concluded; otherwise it
\* fails only on a refused UPDATE, and when it returns no error its UPDATE has
\* changed no row.
C5_ConcludedIsFinal ==
    /\ [][/\ \A m \in DOMAIN meetings :
                meetings[m].status = MeetingConcluded
                => meetings'[m].status = MeetingConcluded
          /\ \A p \in Procs :
                (tx[p].pc = "idle" /\ tx'[p] # tx[p] /\ tx'[p].wasConcluded)
                => LET m == tx'[p].meetingID
                       c == meetings[m].committees_id
                   IN  /\ tx'[p].ret = ErrAlreadyRunning
                          <=> /\ tx'[p].meetingStatus = MeetingRunning
                              /\ RunningIn(c) # {}
                       /\ tx'[p].ret = ErrNewerConcluded
                          <=> /\ tx'[p].meetingStatus = MeetingConcluded
                              /\ \E o \in DOMAIN meetings :
                                    /\ meetings[o].committees_id = c
                                    /\ meetings[o].start_time > meetings[m].start_time
                                    /\ meetings[o].status = MeetingConcluded]_vars
    /\ [](\A p \in Procs :
            (HasReturned(p) /\ tx[p].wasConcluded)
            => /\ tx[p].ret \in {"ok", ErrAlreadyRunning, ErrNewerConcluded,
                                 ErrUpdateFailed}
               /\ tx[p].ret = "ok" => tx[p].n = 0)

\* A call to put a concluded meeting on hold has returned without an error,
\* its UPDATE has changed nothing and the meeting is concluded.
C5_Witness ==
    \E p \in Procs :
        /\ HasReturned(p)
        /\ tx[p].wasConcluded
        /\ tx[p].meetingStatus = MeetingOnHold
        /\ tx[p].ret = "ok"
        /\ tx[p].n = 0
        /\ meetings[tx[p].meetingID].status = MeetingConcluded

\* The step concludes meeting m.
Concludes(m) ==
    /\ meetings[m].status # MeetingConcluded
    /\ meetings'[m].status = MeetingConcluded

\* The rows the step adds to the history with the given status.
NewRows(status) == {h \in member_history' \ member_history : h.status = status}

AttendedBy(m, u) == \E a \in attendees : a.meetings_id = m /\ a.nickname = u

FlaggedVoting(m, u) ==
    \E a \in attendees : a.meetings_id = m /\ a.nickname = u /\ a.voting_allowed

\* The latest concluded regular meeting of m's committee that started before m.
IsPrevious(o, m) ==
    /\ o # m
    /\ meetings[o].committees_id = meetings[m].committees_id
    /\ ~meetings[o].gathering
    /\ meetings[o].status = MeetingConcluded
    /\ meetings[o].start_time < meetings[m].start_time
    /\ \A x \in DOMAIN meetings :
          (/\ x # m
           /\ meetings[x].committees_id = meetings[m].committees_id
           /\ ~meetings[x].gathering
           /\ meetings[x].status = MeetingConcluded
           /\ meetings[x].start_time < meetings[m].start_time)
          => meetings[x].start_time <= meetings[o].start_time

\* The status the history gives user u in committee c at instant t, -1 without
\* an entry at or before t.
StatusAt(u, c, t) ==
    LET S == {h \in member_history :
                 h.nickname = u /\ h.committees_id = c /\ h.since <= t}
    IN  IF S = {} THEN -1
        ELSE (CHOOSE h \in S : \A g \in S : g.since <= h.since).status

LiveStatus(u, c) ==
    LET S == {h \in member_history : h.nickname = u /\ h.committees_id = c}
    IN  IF S = {} THEN Member
        ELSE (CHOOSE h \in S : \A g \in S : g.since <= h.since).status

\* C6: the conclusion of a meeting M demotes a user (writes a Member entry)
\* only if the user has no attendee record for M, the live status is Voting,
\* a previous concluded regular meeting exists and the user has no attendee
\* record for that one either.
C6_DemotionNeedsTwoAbsences ==
    [][\A m \in DOMAIN meetings : \A h \in NewRows(Member) :
          Concludes(m)
          => /\ h.committees_id = meetings[m].committees_id
             /\ ~meetings[m].gathering
             /\ ~AttendedBy(m, h.nickname)
             /\ LiveStatus(h.nickname, h.committees_id) = Voting
             /\ \E o \in DOMAIN meetings :
                   IsPrevious(o, m) /\ ~AttendedBy(o, h.nickname)]_vars

\* A conclusion has demoted a user.
C6_Witness ==
    \E i \in DOMAIN conclusions :
        /\ conclusions[i].downgrades # {}
        /\ \E h \in member_history :
              /\ h.nickname \in conclusions[i].downgrades
              /\ h.status = Member
              /\ h.since = conclusions[i].since

\* C7: with four voting members, the conclusion of the first meeting, which
\* three of them attended, demotes nobody; the conclusion of the second one
\* after it demotes exactly the members absent from both, so the absentee of
\* the first meeting when absent again and nobody else.
C7_SecondAbsenceDemotes ==
    \A i \in DOMAIN conclusions :
        /\ conclusions[i].meeting = 1 => conclusions[i].downgrades = {}
        /\ (conclusions[i].meeting = 2
              /\ \E j \in DOMAIN conclusions : j < i /\ conclusions[j].meeting = 1)
           => /\ conclusions[i].downgrades =
                    {u \in ScenarioUsers : ~AttendedBy(1, u) /\ ~AttendedBy(2, u)}
              /\ i = Len(conclusions)
                 => \A u \in ScenarioUsers :
                       LiveStatus(u, 1) =
                           IF ~AttendedBy(1, u) /\ ~AttendedBy(2, u)
                           THEN Member ELSE Voting
        /\ conclusions[i].upgrades = {}

\* Both meetings are concluded in turn; the absentee of the first one was
\* absent again and is the one member demoted, while another member, absent
\* from the second meeting only, still votes.
C7_Witness ==
    \E u \in ScenarioUsers, v \in ScenarioUsers :
        /\ Len(conclusions) = 2
        /\ conclusions[1].meeting = 1 /\ conclusions[1].downgrades = {}
        /\ conclusions[2].meeting = 2 /\ conclusions[2].downgrades = {u}
        /\ ~AttendedBy(1, u) /\ ~AttendedBy(2, u)
        /\ AttendedBy(1, v) /\ ~AttendedBy(2, v)
        /\ LiveStatus(u, 1) = Member
        /\ LiveStatus(v, 1) = Voting

\* C8: the conclusion of a meeting M promotes a user (writes a Voting entry)
\* only if the user attended M without the voting flag, the live status is
\* Member, the user attended the previous concluded regular meeting without
\* the voting flag, and the history has a Member entry for the user.
C8_PromotionNeedsTwoAttendances ==
    [][\A m \in DOMAIN meetings : \A h \in NewRows(Voting) :
          Concludes(m)
          => /\ h.committees_id = meetings[m].committees_id
             /\ ~meetings[m].gathering
             /\ AttendedBy(m, h.nickname) /\ ~FlaggedVoting(m, h.nickname)
             /\ LiveStatus(h.nickname, h.committees_id) = Member
             /\ \E o \in DOMAIN meetings :
                   /\ IsPrevious(o, m)
                   /\ AttendedBy(o, h.nickname)
                   /\ ~FlaggedVoting(o, h.nickname)
             /\ \E g \in member_history :
                   /\ g.nickname = h.nickname
                   /\ g.committees_id = h.committees_id
                   /\ g.status = Member]_vars

\* A conclusion has promoted a user.
C8_Witness ==
    \E i \in DOMAIN conclusions :
        /\ conclusions[i].upgrades # {}
        /\ \E h \in member_history :
              /\ h.nickname \in conclusions[i].upgrades
              /\ h.status = Voting
              /\ h.since = conclusions[i].since

\* C9: the historical status the conclusion of M consults is the one at the
\* stop time of the previous concluded regular meeting: a user it promotes
\* was Member at that instant.
C9_StatusAtPreviousStop ==
    [][\A m \in DOMAIN meetings, o \in DOMAIN meetings :
          (Concludes(m) /\ IsPrevious(o, m))
          => \A h \in NewRows(Voting) :
                StatusAt(h.nickname, h.committees_id, meetings[o].stop_time)
                    = Member]_vars

\* C10: when M2 is concluded after the previous regular meeting M1, a user of
\* the committee with live status Member who attended both without the voting
\* flag and was Member at M1's stop time gets a Voting entry.
C10_MemberIsPromoted ==
    [][\A m \in DOMAIN meetings, o \in DOMAIN meetings :
          (Concludes(m) /\ IsPrevious(o, m) /\ ~meetings[m].gathering)
          => \A u \in LoadCommitteeUsersTx(committee_roles, meetings[m].committees_id) :
                (/\ LiveStatus(u, meetings[m].committees_id) = Member
                 /\ AttendedBy(m, u) /\ ~FlaggedVoting(m, u)
                 /\ AttendedBy(o, u) /\ ~FlaggedVoting(o, u)
                 /\ StatusAt(u, meetings[m].committees_id, meetings[o].stop_time)
                       = Member)
                => \E h \in NewRows(Voting) : h.nickname = u]_vars

\* C11: a user who was not Voting at the stop time of the previous concluded
\* regular meeting (no entry yet, or an entry other than Voting) is not
\* demoted by the conclusion of M: every user the conclusion demotes was
\* Voting at that instant.
C11_FirstStrikeOfNewVoter ==
    [][\A m \in DOMAIN meetings, o \in DOMAIN meetings :
          (Concludes(m) /\ IsPrevious(o, m))
          => \A h \in NewRows(Member) :
                StatusAt(h.nickname, h.committees_id, meetings[o].stop_time)
                    = Voting]_vars

\* C12: a user whose live status is NoneVoting is never promoted or demoted:
\* no conclusion writes a history entry for such a user.
C12_NoneVotingUntouched ==
    [][\A m \in DOMAIN meetings : \A h \in member_history' \ member_history :
          Concludes(m)
          => LiveStatus(h.nickname, h.committees_id) # NoneVoting]_vars

\* The second meeting is concluded without any change for a NoneVoting user
\* who attended both meetings without the voting flag.
C12_Witness ==
    \E u \in Users :
        /\ Len(conclusions) = 2
        /\ conclusions[2].meeting = 2
        /\ conclusions[2].upgrades = {} /\ conclusions[2].downgrades = {}
        /\ LiveStatus(u, 1) = NoneVoting
        /\ \A h \in member_history : h.nickname = u => h.since < conclusions[2].since
        /\ AttendedBy(1, u) /\ ~FlaggedVoting(1, u)
        /\ AttendedBy(2, u) /\ ~FlaggedVoting(2, u)

\* The user holds the member role in the committee.
HasMemberRole(u, c) ==
    \E r \in committee_roles :
        r.nickname = u /\ r.committees_id = c /\ r.role = MemberRole

\* C13: a conclusion changes the status only of users who hold the member
\* role in the meeting's committee: every history entry it writes belongs to
\* such a user.
C13_OnlyMemberRole ==
    [][\A m \in DOMAIN meetings : \A h \in member_history' \ member_history :
          Concludes(m) => HasMemberRole(h.nickname, meetings[m].committees_id)]_vars

\* C14: the conclusion of a meeting whose gathering flag is set writes no
\* membership history entry.
C14_GatheringWritesNoHistory ==
    [][\A m \in DOMAIN meetings :
          (Concludes(m) /\ meetings[m].gathering)
          => member_history' = member_history]_vars

\* A gathering is concluded after a regular meeting of its committee, with a
\* voting member absent from both and a member present at both.
C14_Witness ==
    \E i \in DOMAIN conclusions, j \in DOMAIN conclusions,
       u \in Users, v \in Users :
        /\ j < i
        /\ meetings[conclusions[i].meeting].gathering
        /\ ~meetings[conclusions[j].meeting].gathering
        /\ conclusions[i].committee = conclusions[j].committee
        /\ conclusions[j].start_time < conclusions[i].start_time
        /\ conclusions[i].upgrades = {} /\ conclusions[i].downgrades = {}
        /\ LiveStatus(u, conclusions[i].committee) = Voting
        /\ ~AttendedBy(conclusions[i].meeting, u)
        /\ ~AttendedBy(conclusions[j].meeting, u)
        /\ LiveStatus(v, conclusions[i].committee) = Member
        /\ AttendedBy(conclusions[i].meeting, v)
        /\ AttendedBy(conclusions[j].meeting, v)

\* C15: a gathering never blocks the conclusion of a regular meeting: a call
\* to conclude a regular meeting returns ErrNewerConcluded only if a regular
\* meeting of the committee with a later start is concluded.
C15_GatheringNeverBlocks ==
    \A p \in Procs :
        (/\ HasReturned(p)
         /\ tx[p].ret = ErrNewerConcluded
         /\ ~meetings[tx[p].meetingID].gathering)
        => \E o \in DOMAIN meetings :
              /\ meetings[o].committees_id = meetings[tx[p].meetingID].committees_id
              /\ ~meetings[o].gathering
              /\ meetings[o].status = MeetingConcluded
              /\ meetings[o].start_time > meetings[tx[p].meetingID].start_time

\* g is the entry that follows h in the history of h's user and committee.
FollowsInHistory(h, g) ==
    /\ g.nickname = h.nickname
    /\ g.committees_id = h.committees_id
    /\ h.since < g.since
    /\ ~\E k \in member_history :
          /\ k.nickname = h.nickname
          /\ k.committees_id = h.committees_id
          /\ h.since < k.since
          /\ k.since < g.since

\* C16: no two entries of a user and committee that are consecutive in
\* timestamp order carry the same status.
C16_NoRepeatedStatus ==
    \A h \in member_history, g \in member_history :
        FollowsInHistory(h, g) => h.status # g.status

\* The history holds at most one entry for a user, committee and since.
UniqueSince ==
    \A h \in member_history, g \in member_history :
        (/\ h.nickname = g.nickname
         /\ h.committees_id = g.committees_id
         /\ h.since = g.since)
        => h = g

\* C17: the history never holds two entries of a user and committee with the
\* same since, and no call fails because the entry it records meets an entry
\* with the same since.
C17_UniqueSinceNeverFails ==
    /\ UniqueSince
    /\ \A p \in Procs : ~(HasReturned(p) /\ tx[p].ret = ErrInsertFailed)

\* The entries of the user shown that are not later than the time asked for.
EntriesUpTo(sh) ==
    {h \in member_history :
        /\ h.nickname = sh.nickname
        /\ h.committees_id = sh.committeeID
        /\ h.since <= sh.when}

\* C18: UserHistory.Status(T) on a loaded history gives the status of the
\* latest entry with since <= T, and NoMember when there is no such entry; it
\* never gives the status of an entry with since > T.
C18_StatusOfLatestEntry ==
    [][shown' # shown
       => IF EntriesUpTo(shown') = {} THEN shown'.status = NoMember
          ELSE \E h \in EntriesUpTo(shown') :
                  /\ \A g \in EntriesUpTo(shown') : g.since <= h.since
                  /\ shown'.status = h.status]_vars

\* A status was looked up at a time strictly between two entries of different
\* status, and the status of the earlier one was shown.
C18_Witness ==
    \E h \in member_history, g \in member_history :
        /\ h.nickname = shown.nickname /\ h.committees_id = shown.committeeID
        /\ g.nickname = shown.nickname /\ g.committees_id = shown.committeeID
        /\ h.since < shown.when /\ shown.when < g.since
        /\ FollowsInHistory(h, g)
        /\ h.status # g.status
        /\ shown.status = h.status

\* C19: for every quorum of an overview, Number() is floor(Voting / 2) + 1,
\* the least number with more than half of the voting members, Reached()
\* holds iff AttendingVoting >= Number(); with one voting member the number
\* is 1, with none it is 1 and the quorum is not reached, as AttendingVoting
\* never exceeds Voting.
C19_QuorumNumber ==
    \A i \in DOMAIN overview.data :
        LET d == overview.data[i]
            q == d.quorum
        IN  d.hasQuorum
            => /\ 2 * d.number > q.Voting
               /\ 2 * (d.number - 1) <= q.Voting
               /\ d.reached <=> (q.AttendingVoting >= d.number)
               /\ d.reached <=> (2 * q.AttendingVoting > q.Voting)
               /\ q.Voting = 1 => d.number = 1
               /\ q.Voting = 0 => (d.number = 1 /\ ~d.reached)
               /\ q.AttendingVoting <= q.Voting

\* An overview with a meeting of no voting member, attended by somebody and
\* without quorum, and a meeting with a voting member and the quorum reached.
C19_Witness ==
    \E i \in DOMAIN overview.data, j \in DOMAIN overview.data :
        /\ overview.data[i].hasQuorum
        /\ overview.data[i].quorum.Voting = 0
        /\ overview.data[i].number = 1
        /\ ~overview.data[i].reached
        /\ \E u \in Users : AttendedBy(overview.data[i].meeting, u)
        /\ overview.data[j].hasQuorum
        /\ overview.data[j].quorum.Voting >= 1
        /\ overview.data[j].reached

\* The users whose status at the stop time of meeting m is Voting.
VotingAtEnd(m) ==
    {u \in Users : StatusAt(u, meetings[m].committees_id, meetings[m].stop_time)
                      = Voting}

RowsOf(A, meetingID, nickname) ==
    {a \in A : a.meetings_id = meetingID /\ a.nickname = nickname}

\* C21: an Attend or Unattend for a pair whose accept time is older than the
\* time of the pair's last change leaves the pair's attendee row and the time
\* of its last change as they are, and returns no error.
C21_StaleAttendanceSkipped ==
    [][\A m \in 1..AttendanceMeetings, u \in 1..AttendanceUsers,
          seq \in AttendanceSeqs, a \in Times :
          ( /\ Attend(0, m, seq, a) \/ Unattend(0, m, seq, a)
            /\ u \in DOMAIN seq
            /\ a < LastChanged(m, u) )
          => /\ RowsOf(attendees', m, u) = RowsOf(attendees, m, u)
             /\ RowsOf(attendees_changes', m, u) = RowsOf(attendees_changes, m, u)
             /\ reply'.err = ""]_vars

\* An Attend has returned without error after it logged a race for a user
\* who does not attend, while it marked another user.
C21_Witness ==
    /\ reply.op = "Attend"
    /\ reply.err = ""
    /\ \E m \in MeetingIDs, u \in reply.races, v \in Users :
          /\ RowsOf(attendees, m, u) = {}
          /\ LastChanged(m, u) > 0
          /\ LastChanged(m, v) = now
          /\ RowsOf(attendees, m, v) # {}

\* C22: every call that inserts, updates or deletes the attendee row of a
\* pair has compared the time of the pair's last change with the time its
\* caller accepted: in no step is a row changed whose last change is later
\* than that time.
C22_NoStaleAttendanceWrite ==
    [][\A m \in MeetingIDs, u \in Users :
          RowsOf(attendees', m, u) # RowsOf(attendees, m, u)
          => ~(LastChanged(m, u) > reply'.accept)]_vars

\* C23: every insert, update or delete of the attendee row of a pair sets
\* the time of the pair's last change to the time of the step, and the time
\* of the last change of a pair never decreases.
C23_LastChangedFollowsWrites ==
    [][\A m \in DOMAIN meetings', u \in Users :
          /\ RowsOf(attendees', m, u) # RowsOf(attendees, m, u)
             => LastChanged(m, u)' = now
          /\ LastChanged(m, u)' >= LastChanged(m, u)]_vars

\* The row of one user has just been deleted, and the row of another user,
\* last written at an earlier time, is still there.
C23_Witness ==
    /\ now >= 2
    /\ reply.op \in {"Unattend", "UpdateAttendee"}
    /\ \E m \in DOMAIN meetings, u \in Users, v \in Users :
          /\ RowsOf(attendees, m, u) = {}
          /\ LastChanged(m, u) = now
          /\ RowsOf(attendees, m, v) # {}
          /\ LastChanged(m, v) \in 0..(now - 1)

\* C24: a step that records a membership status change, by a conclusion or
\* by UpdateMemberships, leaves every attendee row as it is.
C24_StatusChangeKeepsAttendees ==
    [][member_history' # member_history => attendees' = attendees]_vars

\* A conclusion has promoted a user who attended the meeting without the
\* voting flag: the user is Voting now and the row still has no voting flag.
C24_Witness ==
    \E i \in DOMAIN conclusions, a \in attendees :
        /\ a.meetings_id = conclusions[i].meeting
        /\ a.nickname \in conclusions[i].upgrades
        /\ ~a.voting_allowed
        /\ LiveStatus(a.nickname, conclusions[i].committee) = Voting

\* C25: every attendee row the chair's form or the import writes has the
\* voting flag set exactly when the status of the user in the committee of
\* the meeting is Voting at that moment.
C25_FlagIsStatusWhenMarked ==
    [][\A a \in attendees' \ attendees :
          a.voting_allowed =
             (LoadUserStatus(member_history, a.nickname,
                             meetings'[a.meetings_id].committees_id) = Voting)]_vars

\* C26: the history entries written by the conclusion of a meeting all carry
\* as 'since' the effective time of the conclusion: the current time when it
\* lies strictly between the meeting's start and stop time, the stop time
\* otherwise.
C26_SinceIsEffectiveEnd ==
    [][\A m \in DOMAIN meetings' :
          ( /\ meetings'[m].status = MeetingConcluded
            /\ m \in DOMAIN meetings => meetings[m].status # MeetingConcluded )
          => \A h \in member_history' \ member_history :
                h.since = CalculateEndpoint(meetings'[m].start_time,
                                            meetings'[m].stop_time)]_vars

\* C27: gathering flag, start time, stop time and description of a concluded
\* meeting never change, also when the meeting is edited while it is being
\* concluded.
C27_ConcludedMeetingFrozen ==
    [][\A m \in DOMAIN meetings \cap DOMAIN meetings' :
          meetings[m].status = MeetingConcluded
          => /\ meetings'[m].gathering = meetings[m].gathering
             /\ meetings'[m].start_time = meetings[m].start_time
             /\ meetings'[m].stop_time = meetings[m].stop_time
             /\ meetings'[m].description = meetings[m].description]_vars

\* C28: DeleteMeetingsByID removes no concluded meeting; it returns no error,
\* leaves the concluded meetings of the request as they are and deletes the
\* other meetings of the request that belong to the committee.
C28_DeleteSkipsConcluded ==
    [][\A c \in Committees, ids \in SUBSET MeetingIDs :
          DeleteMeetingsByID(c, ids)
          => /\ \A m \in DOMAIN meetings :
                   meetings[m].status = MeetingConcluded
                   => m \in DOMAIN meetings' /\ meetings'[m] = meetings[m]
             /\ reply'.err = ""
             /\ \A m \in ids \cap DOMAIN meetings :
                   (meetings[m].committees_id = c
                      /\ meetings[m].status # MeetingConcluded)
                   => m \notin DOMAIN meetings']_vars

\* C29: no step modifies or removes a membership history entry: every entry
\* of the history is an entry of the history after the step.
C29_HistoryOnlyGrows ==
    [][member_history \subseteq member_history']_vars

\* The history of user 1 has grown by UpdateMemberships and by a conclusion,
\* a meeting was moved, the user is marked, and a deletion was the last call.
C29_Witness ==
    /\ \E h \in member_history : h.nickname = 1 /\ h.status = NoneVoting
    /\ \E i \in DOMAIN conclusions :
          conclusions[i].upgrades \cup conclusions[i].downgrades # {}
    /\ \E m \in DOMAIN meetings : meetings[m].description = "agenda"
    /\ attendees # {}
    /\ reply.op = "Delete"

\* C30: the conclusion of a regular meeting of a committee that has no
\* concluded regular meeting with an earlier start writes no membership
\* history entry.
C30_FirstMeetingWritesNoHistory ==
    [][\A m \in DOMAIN meetings :
          ( /\ Concludes(m)
            /\ ~meetings[m].gathering
            /\ ~\E k \in DOMAIN meetings :
                  /\ meetings[k].committees_id = meetings[m].committees_id
                  /\ ~meetings[k].gathering
                  /\ meetings[k].status = MeetingConcluded
                  /\ meetings[k].start_time < meetings[m].start_time )
          => member_history' = member_history]_vars

\* The only conclusion so far is that of a regular meeting which a voting
\* member did not attend, and it changed nobody's status.
C30_Witness ==
    /\ Len(conclusions) = 1
    /\ conclusions[1].upgrades = {}
    /\ conclusions[1].downgrades = {}
    /\ ~meetings[conclusions[1].meeting].gathering
    /\ \E u \in Users :
          /\ LiveStatus(u, conclusions[1].committee) = Voting
          /\ HasMemberRole(u, conclusions[1].committee)
          /\ ~AttendedBy(conclusions[1].meeting, u)

\* C31: an Attend or Unattend for a pair whose last change is not recorded or
\* is not after the accept time is applied: after Attend the pair has exactly
\* one attendee row, with the voting flag given, whether or not it had a row
\* before; after Unattend it has none.
C31_FreshAttendanceApplied ==
    [][\A m \in 1..AttendanceMeetings, u \in 1..AttendanceUsers,
          seq \in AttendanceSeqs, a \in Times :
          ( /\ u \in DOMAIN seq
            /\ ~(LastChanged(m, u) > a) )
          => /\ Attend(0, m, seq, a)
                => RowsOf(attendees', m, u) =
                      {[meetings_id |-> m, nickname |-> u,
                        voting_allowed |-> seq[u]]}
             /\ Unattend(0, m, seq, a)
                => RowsOf(attendees', m, u) = {}]_vars

\* An Unattend whose caller accepted before the current time has removed the
\* row of a user, while another user, whose row with the voting flag was
\* last written at that accept time, still attends.
C31_Witness ==
    /\ reply.op = "Unattend"
    /\ reply.races = {}
    /\ reply.accept \in 1..(now - 1)
    /\ \E m \in DOMAIN meetings, u \in Users, v \in Users :
          /\ RowsOf(attendees, m, u) = {}
          /\ LastChanged(m, u) = now
          /\ RowsOf(attendees, m, v) =
                {[meetings_id |-> m, nickname |-> v, voting_allowed |-> TRUE]}
          /\ LastChanged(m, v) = reply.accept

\* C32: a voting member absent from the current and from the previous
\* meeting is not demoted by the conclusion of the current meeting when an
\* approved absence of the member covers the stop time of the previous
\* meeting: no user the conclusion demotes is excused at that instant.
C32_ExcusedNotDemoted ==
    [][\A m \in DOMAIN meetings, o \in DOMAIN meetings :
          (Concludes(m) /\ IsPrevious(o, m))
          => \A h \in NewRows(Member) :
                ~IsUserExcusedFromMeetingTx(member_absent, h.nickname,
                                            h.committees_id,
                                            meetings[o].stop_time)]_vars

\* C33: the live status of a committee member, the status of the entry with
\* the greatest since, is the status in effect at the current time: for a
\* user of a committee with an entry that is not later than now, it equals
\* what UserMemberStatusSinceTx and UserHistory.Status give for now.
C33_LiveStatusIsStatusNow ==
    \A c \in Committees : \A u \in LoadCommitteeUsersTx(committee_roles, c) :
        UserMemberStatusSinceTx(member_history, u, c, now).found
        => /\ LoadUserStatus(member_history, u, c) =
                 UserMemberStatusSinceTx(member_history, u, c, now).status
           /\ LoadUserStatus(member_history, u, c) =
                 Status(LoadUsersHistoriesTx(member_history, c)[u], now)

\* C34: the conclusion of a meeting leaves the quorum figures that
\* LoadMeetingsOverview computes for that meeting (Voting, AttendingVoting,
\* the number needed and whether it is reached) as they were before it.
C34_ConclusionKeepsOwnQuorum ==
    [][\A m \in DOMAIN meetings :
          Concludes(m)
          => MeetingData(meetings', attendees', member_history',
                         meetings[m].committees_id, m)
             = MeetingData(meetings, attendees, member_history,
                           meetings[m].committees_id, m)]_vars

\* C35: the attendee rows of a meeting are inserted, updated and deleted only
\* while the meeting is running, and the attendees of a concluded meeting,
\* which the promotion/demotion step has read, never change, also when the
\* chair's form is submitted while the meeting is being concluded.
C35_AttendanceOnlyWhileRunning ==
    [][\A m \in DOMAIN meetings :
          /\ MeetingAttendeesTx(attendees', m) # MeetingAttendeesTx(attendees, m)
             => meetings[m].status = MeetingRunning
          /\ meetings[m].status = MeetingConcluded
             => MeetingAttendeesTx(attendees', m) = MeetingAttendeesTx(attendees, m)]_vars

\* C36: right after the commit of a conclusion that demotes or promotes a
\* user, the live status of the user in the committee, as loadUserTx gives
\* it, is the status of the entry written: Member after a demotion, Voting
\* after a promotion.
C36_LiveStatusAfterConclusion ==
    [][\A m \in DOMAIN meetings :
          Concludes(m)
          => \A h \in member_history' \ member_history :
                LoadUserStatus(member_history', h.nickname, h.committees_id)
                    = h.status]_vars

\* A meeting of m's committee that starts later than m is concluded.
NewerConcluded(m) ==
    \E k \in DOMAIN meetings :
        /\ k # m
        /\ meetings[k].committees_id = meetings[m].committees_id
        /\ meetings[k].status = MeetingConcluded
        /\ meetings[k].start_time > meetings[m].start_time

\* C37: no meeting becomes un-concludable: whatever meetings were stored or
\* concluded before, a call to conclude a meeting that is on hold or running
\* is not refused, that is, no meeting of its committee with a later start
\* is concluded.
C37_NoMeetingStuck ==
    \A m \in DOMAIN meetings :
        meetings[m].status # MeetingConcluded => ~NewerConcluded(m)

\* C38: ChangeMeetingStatus(m, MeetingOnHold) on a running meeting puts it
\* back on hold and changes nothing else: the other columns and the other
\* meetings, the membership history, the attendees and their change times,
\* the roles and the absences stay as they are; after it no meeting of the
\* committee is running, so that a call for another one passes the
\* precondition of MeetingRunning.
C38_BackOnHold ==
    [][\A m \in DOMAIN meetings :
          /\ (/\ Commit(1)
              /\ tx[1].meetingID = m
              /\ tx[1].meetingStatus = MeetingOnHold
              /\ meetings[m].status = MeetingRunning)
             => /\ meetings'[m].status = MeetingOnHold
                /\ tx'[1].ret = "ok"
          /\ (meetings[m].status = MeetingRunning /\ meetings'[m].status = MeetingOnHold)
             => /\ meetings' = [meetings EXCEPT ![m].status = MeetingOnHold]
                /\ UNCHANGED <<member_history, attendees, attendees_changes,
                               committee_roles, member_absent>>
                /\ \A k \in DOMAIN meetings :
                      meetings'[k].committees_id = meetings[m].committees_id
                          => meetings'[k].status # MeetingRunning]_vars

\* Meeting 1, running at the start, is back on hold and the call that set
\* meeting 2 of the same committee running has returned without an error.
C38_Witness ==
    /\ meetings[1].status = MeetingOnHold
    /\ meetings[2].status = MeetingRunning
    /\ meetings[1].committees_id = meetings[2].committees_id
    /\ tx[1].pc = "idle"
    /\ tx[1].meetingID = 2
    /\ tx[1].meetingStatus = MeetingRunning
    /\ tx[1].ret = "ok"

====
